---- MODULE Spec2Model ----
(***************************************************************************)
(* DiscourseCrawler: the incremental crawl engine (src/src/crawler.ts)     *)
(* over its DuckDB persistence layer (src/src/database.ts).                *)
(*                                                                         *)
(* The five tables are sequences of rows; a row's surrogate id (the        *)
(* sequence-generated primary key) is its index.  NULL is 0 for ids,       *)
(* timestamps and cursors.  Timestamps are integer ticks, TicksPerDay to a *)
(* day; every real timestamp is >= 1 (after the epoch, tick 0).            *)
(***************************************************************************)
EXTENDS Integers, Sequences, FiniteSets, TLC

VARIABLES
    forum,      \* table forum:    [url, categories_crawled]
    category,   \* table category: [category_id, forum_id, pages_crawled]
    page,       \* table page:     [category_id, page_id, more_topics_url, more_after, topics]
    topic,      \* table topic:    [topic_id, category_id, posts_crawled, last_crawled_at, created_at]
    post,       \* table post:     [post_id, topic_id, version, updated_at, created_at]
    srv,        \* the remote forum's content
    plan,       \* the option menus of the crawl() runs still to be started
    killsLeft,  \* how many more times the process may be terminated mid-run
    growsLeft,  \* how many more topics may appear on the server between runs
    faultsLeft, \* how many more steps (a fetch or a persistence call) may fail
    now,        \* the clock (CURRENT_TIMESTAMP), in ticks
    pc,         \* position of the running crawl(), "idle" when none runs
    opts,       \* CrawlerOptions of the running crawl(): [fullCrawl, sinceDate, url]
    run,        \* local variables of the running crawl()
    log,        \* the requests limitedFetch issued in the current run, in order
    hist,       \* what is remembered about runs for stating properties
    obs         \* the last direct call of a persistence operation and its outcome

vars == <<forum, category, page, topic, post, srv, plan, killsLeft, growsLeft,
          faultsLeft, now, pc, opts, run, log, hist, obs>>

store == <<forum, category, page, topic, post>>

\* the five tables as one value
Stored == [forum |-> forum, category |-> category, page |-> page, topic |-> topic, post |-> post]

\* nothing observed yet
Obs0 == [op |-> "none"]

\* no step of the run has failed
NoFault == [at |-> "none", id |-> 0]

-----------------------------------------------------------------------------
(* Bounds of the model *)

MaxTopicId == 3

MaxManifest == 22

MaxPageSize == 2

MaxVersion == 3

MaxStamp == 2

MaxDay == 3

\* the rows a table may hold when the store is called directly
MaxRows == 2
MaxWait == 3

MaxRateLimit == 2001

-----------------------------------------------------------------------------
(* Program constants *)

\* crawler.ts:421  remainingPosts.slice(0, 20)
BatchSize == 20

\* toISOString().split('T')[0] keeps the day of a timestamp
TicksPerDay == 2

-----------------------------------------------------------------------------
(* Generic helpers *)

Min(a, b) == IF a < b THEN a ELSE b

\* Array.prototype.slice(n): the elements from index n (0-based) on
Slice(s, n) == SubSeq(s, Min(n, Len(s)) + 1, Len(s))

\* Array.prototype.slice(0, n): the first n elements (all when fewer)
Take(s, n) == SubSeq(s, 1, Min(n, Len(s)))

Range(s) == {s[i] : i \in DOMAIN s}

\* SELECT ... LIMIT 1: the id of a matching row, 0 (null) when none
First(S) == IF S = {} THEN 0 ELSE CHOOSE i \in S : \A j \in S : i <= j

\* the elements of a set of integers as a sequence, ascending
RECURSIVE Ascending(_)
Ascending(S) ==
    IF S = {} THEN <<>>
    ELSE LET m == CHOOSE x \in S : \A y \in S : x <= y
         IN <<m>> \o Ascending(S \ {m})

Reverse(s) == [i \in 1..Len(s) |-> s[Len(s) + 1 - i]]

-----------------------------------------------------------------------------
(* database.ts: the persistence operations *)

\* findForum(url) finds no row
FindForumNever(url) == 0

\* findForum(url)
FindForum(url) == First({i \in DOMAIN forum : forum[i].url = url})

\* INSERT INTO forum that leaves the table alone when the url is stored
CreateForumOnce(f) ==
    IF \E i \in DOMAIN forum : forum[i].url = f.url THEN forum ELSE Append(forum, f)

\* createForum: INSERT INTO forum ... RETURNING *  (no uniqueness on url)
CreateForum(f) == Append(forum, f)

\* updateForum(id, {categories_crawled})
UpdateForum(id, flag) == [forum EXCEPT ![id].categories_crawled = flag]

\* findCategoriesByForumId(forumId), in row order
FindCategoriesByForumId(forumId) ==
    Ascending({i \in DOMAIN category : category[i].forum_id = forumId})

\* findCategoryByCategoryIdAndForumId
FindCategoryByCategoryIdAndForumId(categoryId, forumId) ==
    First({i \in DOMAIN category : category[i].category_id = categoryId /\ category[i].forum_id = forumId})

\* INSERT INTO category under UNIQUE (category_id, forum_id) and the foreign key
InsertCategory(tbl, c) ==
    IF \/ \E i \in DOMAIN tbl : tbl[i].category_id = c.category_id /\ tbl[i].forum_id = c.forum_id
       \/ c.forum_id \notin DOMAIN forum
    THEN [table |-> tbl, id |-> 0, threw |-> TRUE]
    ELSE [table |-> Append(tbl, c), id |-> Len(tbl) + 1, threw |-> FALSE]

\* createCategory: the existing row, else the inserted one
CreateCategory(c) ==
    LET existing == FindCategoryByCategoryIdAndForumId(c.category_id, c.forum_id)
    IN IF existing # 0
       THEN [table |-> category, id |-> existing, threw |-> FALSE]
       ELSE InsertCategory(category, c)

\* updateCategory(id, {pages_crawled})
UpdateCategory(id, flag) == [category EXCEPT ![id].pages_crawled = flag]

\* findTopicByCategoryIdAndTopicId(categoryId, topicId)
FindTopicByCategoryIdAndTopicId(categoryId, topicId) ==
    First({i \in DOMAIN topic : topic[i].category_id = categoryId /\ topic[i].topic_id = topicId})

\* getTopicsByCategoryId: ORDER BY topic_id desc
GetTopicsByCategoryId(categoryId) ==
    LET ids == {topic[i].topic_id : i \in {j \in DOMAIN topic : topic[j].category_id = categoryId}}
    IN [k \in 1..Cardinality(ids) |->
          FindTopicByCategoryIdAndTopicId(categoryId, Reverse(Ascending(ids))[k])]

\* INSERT INTO topic under UNIQUE (category_id, topic_id) and the foreign key
InsertTopic(tbl, t) ==
    IF \/ \E i \in DOMAIN tbl : tbl[i].category_id = t.category_id /\ tbl[i].topic_id = t.topic_id
       \/ t.category_id \notin DOMAIN category
    THEN [table |-> tbl, id |-> 0, threw |-> TRUE]
    ELSE [table |-> Append(tbl, t), id |-> Len(tbl) + 1, threw |-> FALSE]

\* createTopic: looks up (topic.category_id, topic.category_id), else inserts
CreateTopic(t) ==
    LET existing == FindTopicByCategoryIdAndTopicId(t.category_id, t.category_id)
    IN IF existing # 0
       THEN [table |-> topic, id |-> existing, threw |-> FALSE]
       ELSE InsertTopic(topic, t)

\* updateTopic(id, {topic_json, posts_crawled: true}): the topic is marked
\* when its primary document is stored
UpdateTopicJsonMarksCrawled(id, created) ==
    [topic EXCEPT ![id].created_at = created, ![id].posts_crawled = TRUE]

\* an update of topic_json that also clears last_crawled_at
UpdateTopicJsonClearsStamp(id, created) ==
    [topic EXCEPT ![id].created_at = created, ![id].last_crawled_at = 0]

\* updateTopic(id, {topic_json}): the snapshot's created_at is what is read back
UpdateTopicJson(id, created) == [topic EXCEPT ![id].created_at = created]

\* updateTopic(id, {posts_crawled})
UpdateTopicPostsCrawled(id, flag) == [topic EXCEPT ![id].posts_crawled = flag]

\* the stamp is not written
UpdateTopicLastCrawledNever(id) == topic

\* updateTopicLastCrawled(id): last_crawled_at = CURRENT_TIMESTAMP
UpdateTopicLastCrawled(id) == [topic EXCEPT ![id].last_crawled_at = now]

\* getLatestTopicTimestamp(forumId): MAX over the forum's topics of the
\* created_at of topic_json, NULL (0) when no topic carries one
GetLatestTopicTimestamp(forumId) ==
    LET S == {topic[i].created_at :
                i \in {j \in DOMAIN topic : topic[j].category_id \in DOMAIN category
                                          /\ category[topic[j].category_id].forum_id = forumId}}
    IN IF S = {} THEN 0 ELSE CHOOSE m \in S : \A x \in S : x <= m

\* INSERT INTO post under UNIQUE (topic_id, post_id) and the foreign key
InsertPost(tbl, p) ==
    IF \/ \E i \in DOMAIN tbl : tbl[i].post_id = p.post_id /\ tbl[i].topic_id = p.topic_id
       \/ p.topic_id \notin DOMAIN topic
    THEN [table |-> tbl, id |-> 0, threw |-> TRUE]
    ELSE [table |-> Append(tbl, p), id |-> Len(tbl) + 1, threw |-> FALSE]

\* createPost against a given post table: the existing row, else the inserted one
CreatePostIn(tbl, p) ==
    LET S == {i \in DOMAIN tbl : tbl[i].post_id = p.post_id /\ tbl[i].topic_id = p.topic_id}
    IN IF S # {}
       THEN [table |-> tbl, id |-> First(S), threw |-> FALSE]
       ELSE InsertPost(tbl, p)

\* createPost
CreatePost(p) == CreatePostIn(post, p)

\* parsedJSON.version || 1  and  rows[0].version || 1
VersionOr1(v) == IF v = 0 THEN 1 ELSE v

\* parsedJSON.updated_at || parsedJSON.created_at
EditedAt(p) == IF p.updated_at # 0 THEN p.updated_at ELSE p.created_at

\* the condition of updatePostIfEdited:
\*   versionNumber > currentVersion ||
\*   (editedAt && (currentUpdatedAt || new Date(editedAt) > new Date(currentUpdatedAt)))
\* where new Date(null) is the epoch, tick 0
Edited(stored, incoming) ==
    \/ VersionOr1(incoming.version) > VersionOr1(stored.version)
    \/ (EditedAt(incoming) # 0 /\ (stored.updated_at # 0 \/ EditedAt(incoming) > 0))

\* updatePostIfEdited(id, json) against a given post table
UpdatePostIfEdited(tbl, id, incoming) ==
    IF id \notin DOMAIN tbl THEN [table |-> tbl, updated |-> FALSE]
    ELSE IF Edited(tbl[id], incoming)
         THEN [table |-> [tbl EXCEPT ![id] = [incoming EXCEPT !.topic_id = tbl[id].topic_id,
                                                              !.post_id = tbl[id].post_id]],
               updated |-> TRUE]
         ELSE [table |-> tbl, updated |-> FALSE]

\* findPageByCategoryIdAndPageId
FindPageByCategoryIdAndPageId(categoryId, pageId) ==
    First({i \in DOMAIN page : page[i].category_id = categoryId /\ page[i].page_id = pageId})

\* createPage: the existing row, else the inserted one
CreatePage(p) ==
    LET existing == FindPageByCategoryIdAndPageId(p.category_id, p.page_id)
    IN IF existing # 0
       THEN [table |-> page, id |-> existing]
       ELSE [table |-> Append(page, p), id |-> Len(page) + 1]

\* the same query with ORDER BY page_id ASC
GetFirstPageByCategory(categoryId) ==
    LET S == {i \in DOMAIN page : page[i].category_id = categoryId}
    IN IF S = {} THEN 0
       ELSE CHOOSE i \in S : \A j \in S : page[j].page_id >= page[i].page_id

\* getLastPageByCategory: ORDER BY page_id DESC LIMIT 1, 0 (null) when none
GetLastPageByCategory(categoryId) ==
    LET S == {i \in DOMAIN page : page[i].category_id = categoryId}
    IN IF S = {} THEN 0
       ELSE CHOOSE i \in S : \A j \in S : page[j].page_id <= page[i].page_id

-----------------------------------------------------------------------------
(* The remote forum.  srv.cats lists the remote category ids; srv.list[i]   *)
(* is the topic listing of category srv.cats[i], served srv.psize topics to *)
(* a page; srv.created[t] is the creation tick of topic t (0: no such       *)
(* topic); every topic has the manifest 1..srv.mlen of post ids, of which   *)
(* its primary document carries the first srv.primary; a batch-posts        *)
(* request may be answered with fewer posts than asked when srv.partial.    *)

\* toISOString().split('T')[0]: the day of a timestamp
FormatDate(t) == t \div TicksPerDay + 1

CatIndex(c) == First({i \in DOMAIN srv.cats : srv.cats[i] = c})

\* the listing of remote category c restricted by the after parameter (0: none):
\* the topics created on or after that day
RECURSIVE Filter(_, _)
Filter(l, after) ==
    IF l = <<>> THEN <<>>
    ELSE IF after = 0 \/ FormatDate(srv.created[Head(l)]) >= after
         THEN <<Head(l)>> \o Filter(Tail(l), after)
         ELSE Filter(Tail(l), after)

ServerListing(c, after) == Filter(srv.list[CatIndex(c)], after)

\* GET c/<c>.json?page=n[&after=d]: topic_list.topics and more_topics_url
\* (the number of the next page, 0 when the listing ends here)
ServerPage(c, n, after) ==
    LET l == ServerListing(c, after)
    IN [topics |-> SubSeq(l, Min(n * srv.psize, Len(l)) + 1, Min((n + 1) * srv.psize, Len(l))),
        more_topics_url |-> IF (n + 1) * srv.psize < Len(l) THEN n + 1 ELSE 0,
        more_after |-> IF srv.echo /\ (n + 1) * srv.psize < Len(l) THEN after ELSE 0]

\* how many listing pages the server offers for category c under that filter
PagesOffered(c, after) ==
    LET n == Len(ServerListing(c, after))
    IN IF n = 0 THEN 1 ELSE (n + srv.psize - 1) \div srv.psize

\* post_stream.stream of GET t/<t>.json
Manifest == [i \in 1..srv.mlen |-> i]

\* one post of a response: its JSON snapshot, keyed for the topic row it goes to
ServerPost(topicRow, id) ==
    [post_id |-> id, topic_id |-> topicRow, version |-> srv.pver,
     updated_at |-> srv.pupd, created_at |-> 1]

\* post_stream.posts of GET t/<t>.json: the first srv.primary posts
PrimaryPosts(topicRow) ==
    [i \in 1..Min(srv.primary, srv.mlen) |-> ServerPost(topicRow, Manifest[i])]

\* post_stream.posts of GET t/<t>/posts.json?post_ids[]=ids: the first r of them
BatchPosts(topicRow, ids, r) == [i \in 1..r |-> ServerPost(topicRow, ids[i])]

-----------------------------------------------------------------------------
(* crawler.ts: one crawl() run, step by step *)

NoForum == [id |-> 0, categories_crawled |-> FALSE]

NoCategory == [id |-> 0, category_id |-> 0, forum_id |-> 0, pages_crawled |-> FALSE]

NoTopic == [id |-> 0, topic_id |-> 0, posts_crawled |-> FALSE, last_crawled_at |-> 0]

\* the locals of a run before its first step
Run0 ==
    [forum |-> NoForum,        \* crawl: forum
     cats |-> <<>>,            \* the categories a loop still has to visit
     listed |-> <<>>,          \* the listed categories or topics still to be created
     cat |-> NoCategory,       \* crawlCategory: category
     cutoff |-> 0,             \* crawlCategory: sinceDate
     lastPage |-> 0,           \* crawlCategory: lastPage (a page row, 0: null)
     pageRow |-> 0,            \* crawlCategory: page
     more |-> 0,               \* crawlCategory: moreTopicsUrl
     topics |-> <<>>,          \* crawlTopics: the topics still to be visited
     topic |-> NoTopic,        \* crawlTopic: topic
     resp |-> <<>>,            \* crawlTopic: jsonTopic.post_stream.posts
     remaining |-> <<>>]       \* crawlTopic: remainingPosts

Request(kind, cat, pg, after, t) ==
    [kind |-> kind, cat |-> cat, page |-> pg, after |-> after, topic |-> t]

\* the Category objects of the forum when this run has listed the remote
\* categories, none otherwise
CategoryObjectsListed(tbl, forumId) ==
    IF \E i \in DOMAIN log : log[i].kind = "categories"
    THEN LET ids == Ascending({i \in DOMAIN tbl : tbl[i].forum_id = forumId})
         IN [k \in DOMAIN ids |->
               [id |-> ids[k], category_id |-> tbl[ids[k]].category_id,
                forum_id |-> tbl[ids[k]].forum_id, pages_crawled |-> tbl[ids[k]].pages_crawled]]
    ELSE <<>>

\* the Category objects findCategoriesByForumId returns
CategoryObjects(tbl, forumId) ==
    LET ids == Ascending({i \in DOMAIN tbl : tbl[i].forum_id = forumId})
    IN [k \in DOMAIN ids |->
          [id |-> ids[k], category_id |-> tbl[ids[k]].category_id,
           forum_id |-> tbl[ids[k]].forum_id, pages_crawled |-> tbl[ids[k]].pages_crawled]]

\* a Topic object as getTopicsByCategoryId returns it
TopicObjects(categoryId) ==
    LET ids == GetTopicsByCategoryId(categoryId)
    IN [k \in DOMAIN ids |->
          [id |-> ids[k], topic_id |-> topic[ids[k]].topic_id,
           posts_crawled |-> topic[ids[k]].posts_crawled,
           last_crawled_at |-> topic[ids[k]].last_crawled_at]]

Env == <<srv, plan, killsLeft, growsLeft, faultsLeft, now>>

\* crawl() is called on a crawler created with the next options of the plan
StartRun ==
    /\ pc = "idle"
    /\ plan # <<>>
    /\ \E o \in Head(plan) : opts' = o
    /\ plan' = Tail(plan)
    /\ now' = now + 1
    /\ pc' = "getForum"
    /\ run' = Run0
    /\ log' = <<>>
    /\ hist' = [hist EXCEPT !.runs = @ + 1,
                            !.doneAtStart = {i \in DOMAIN category : category[i].pages_crawled},
                            !.pagesAtStart = {page[i].category_id : i \in DOMAIN page},
                            !.topicAtStart = topic,
                            !.resumed = hist.killed,
                            !.killed = FALSE,
                            !.finished = FALSE,
                            !.threw = FALSE,
                            !.fault = NoFault,
                            !.storeAtStart = Stored]
    /\ obs' = Obs0
    /\ UNCHANGED <<store, srv, killsLeft, growsLeft, faultsLeft>>

\* getForum: the stored forum of this url, else a new one
GetForum ==
    /\ pc = "getForum"
    /\ LET found == FindForum(opts.url)
           tbl == IF found # 0 THEN forum
                  ELSE CreateForum([url |-> opts.url, categories_crawled |-> FALSE])
           id == IF found # 0 THEN found ELSE Len(tbl)
       IN /\ forum' = tbl
          /\ run' = [run EXCEPT !.forum = [id |-> id,
                                           categories_crawled |-> tbl[id].categories_crawled]]
    /\ pc' = IF opts.fullCrawl THEN "resetForum" ELSE "crawlForum"
    /\ UNCHANGED <<category, page, topic, post, Env, opts, log, hist, obs>>

\* resetCrawledState: updateForum, then findCategoriesByForumId
ResetForum ==
    /\ pc = "resetForum"
    /\ forum' = UpdateForum(run.forum.id, FALSE)
    /\ run' = [run EXCEPT !.cats = FindCategoriesByForumId(run.forum.id)]
    /\ pc' = IF FindCategoriesByForumId(run.forum.id) = <<>> THEN "resetTopics" ELSE "resetCategory"
    /\ obs' = [op |-> "resetCrawledState", forum |-> run.forum.id, was |-> Stored]
    /\ UNCHANGED <<category, page, topic, post, Env, opts, log, hist>>

\* resetCrawledState: updateCategory of the next category
ResetCategory ==
    /\ pc = "resetCategory"
    /\ category' = UpdateCategory(Head(run.cats), FALSE)
    /\ run' = [run EXCEPT !.cats = Tail(@)]
    /\ pc' = IF Tail(run.cats) = <<>> THEN "resetTopics" ELSE "resetCategory"
    /\ UNCHANGED <<forum, page, topic, post, Env, opts, log, hist, obs>>

\* an UPDATE topic without the join on the forum's categories
ResetTopicRowsOfAllForums(forumId) ==
    [i \in DOMAIN topic |-> [topic[i] EXCEPT !.posts_crawled = FALSE, !.last_crawled_at = 0]]

\* a DELETE FROM topic of the forum's topics in place of the UPDATE
ResetTopicRowsDeleted(forumId) ==
    SelectSeq(topic, LAMBDA t : category[t.category_id].forum_id # forumId)

\* an UPDATE that clears last_crawled_at and leaves posts_crawled
ResetTopicRowsStampOnly(forumId) ==
    [i \in DOMAIN topic |->
       IF topic[i].category_id \in DOMAIN category
          /\ category[topic[i].category_id].forum_id = forumId
       THEN [topic[i] EXCEPT !.last_crawled_at = 0]
       ELSE topic[i]]

\* the topics the bulk UPDATE of resetCrawledState touches, reset
ResetTopicRows(forumId) ==
    [i \in DOMAIN topic |->
       IF topic[i].category_id \in DOMAIN category
          /\ category[topic[i].category_id].forum_id = forumId
       THEN [topic[i] EXCEPT !.posts_crawled = FALSE, !.last_crawled_at = 0]
       ELSE topic[i]]

\* resetCrawledState: UPDATE topic ... FROM category WHERE c.forum_id = ?
ResetTopics ==
    /\ pc = "resetTopics"
    /\ topic' = ResetTopicRows(run.forum.id)
    /\ pc' = "crawlForum"
    /\ hist' = [hist EXCEPT !.resets = @ + 1]
    /\ UNCHANGED <<forum, category, page, post, Env, opts, run, log, obs>>

\* crawlForum: if (!forum.categories_crawled || this.options?.fullCrawl)
Discovers(forumObject) == ~forumObject.categories_crawled \/ opts.fullCrawl

\* crawling.ts, crawlForum: if (!forum.categories_crawled)
CrawlingDiscovers(forumObject) == ~forumObject.categories_crawled

\* crawlForum: the categories listing is fetched when the test holds
FetchCategoriesIf(discovers) ==
    /\ pc = "crawlForum"
    /\ discovers
    /\ log' = Append(log, Request("categories", 0, 0, 0, 0))
    /\ run' = [run EXCEPT !.listed = srv.cats]
    /\ pc' = IF srv.cats = <<>> THEN "markForum" ELSE "createCategory"
    /\ UNCHANGED <<store, Env, opts, hist, obs>>

\* crawlForum: the categories listing is fetched
FetchCategories == FetchCategoriesIf(Discovers(run.forum))

\* the same step in the crawler of crawling.ts
CrawlingFetchCategories == FetchCategoriesIf(CrawlingDiscovers(run.forum))

\* crawlForum: createCategory for the next listed category
CreateCategoryStep ==
    /\ pc = "createCategory"
    /\ category' = CreateCategory([category_id |-> Head(run.listed),
                                   forum_id |-> run.forum.id,
                                   pages_crawled |-> FALSE]).table
    /\ run' = [run EXCEPT !.listed = Tail(@)]
    /\ pc' = IF Tail(run.listed) = <<>> THEN "markForum" ELSE "createCategory"
    /\ UNCHANGED <<forum, page, topic, post, Env, opts, log, hist, obs>>

\* crawlForum: the forum is marked, then findCategoriesByForumId
MarkForum ==
    /\ pc = "markForum"
    /\ forum' = UpdateForum(run.forum.id, TRUE)
    /\ run' = [run EXCEPT !.cats = CategoryObjects(category, run.forum.id)]
    /\ pc' = "crawlCategory"
    /\ UNCHANGED <<category, page, topic, post, Env, opts, log, hist, obs>>

\* crawlForum: the else branch of the test, then findCategoriesByForumId
SkipCategoriesIf(discovers) ==
    /\ pc = "crawlForum"
    /\ ~discovers
    /\ run' = [run EXCEPT !.cats = CategoryObjects(category, run.forum.id)]
    /\ pc' = "crawlCategory"
    /\ UNCHANGED <<store, Env, opts, log, hist, obs>>

\* crawlForum: categories already marked crawled, then findCategoriesByForumId
SkipCategories == SkipCategoriesIf(Discovers(run.forum))

\* the same step in the crawler of crawling.ts
CrawlingSkipCategories == SkipCategoriesIf(CrawlingDiscovers(run.forum))

\* crawlCategory: sinceDate = options.sinceDate || (!fullCrawl && getLatestTopicTimestamp)
SinceDate(forumId) ==
    IF opts.sinceDate # 0 THEN opts.sinceDate
    ELSE IF ~opts.fullCrawl THEN GetLatestTopicTimestamp(forumId) ELSE 0

\* the page loop is entered whatever the stored cursor
MorePagesAlways(lastPage) == TRUE

\* the while condition of crawlCategory
MorePages(lastPage) == lastPage = 0 \/ page[lastPage].more_topics_url # 0

\* the end of one turn of the page loop: lastPage = page; break unless
\* moreTopicsUrl; then the while condition on the stored page's cursor
AfterPageMarksCategory(moreTopicsUrl, cursor) == "markCategory"

AfterPage(moreTopicsUrl, cursor) ==
    IF moreTopicsUrl = 0 THEN "markCategory"
    ELSE IF cursor # 0 THEN "page" ELSE "markCategory"

\* crawlCategory of the next category, up to the first test of the page loop
BeginCategory ==
    /\ pc = "crawlCategory"
    /\ run.cats # <<>>
    /\ LET c == Head(run.cats)
           lastPage == GetLastPageByCategory(c.id)
       IN /\ (~c.pages_crawled \/ opts.fullCrawl)
          /\ run' = [run EXCEPT !.cat = c, !.cats = Tail(@),
                                !.cutoff = SinceDate(c.forum_id),
                                !.lastPage = lastPage]
          /\ pc' = IF MorePages(lastPage) THEN "page" ELSE "markCategory"
    /\ UNCHANGED <<store, Env, opts, log, hist, obs>>

\* crawlCategory of a category that has already been crawled
SkipCategory ==
    /\ pc = "crawlCategory"
    /\ run.cats # <<>>
    /\ ~(~Head(run.cats).pages_crawled \/ opts.fullCrawl)
    /\ run' = [run EXCEPT !.cats = Tail(@)]
    /\ UNCHANGED <<store, Env, pc, opts, log, hist, obs>>

\* searchParams.set('after', formattedDate) if (sinceDate): the after
\* parameter of a request built for that cutoff, 0 when there is none
AfterParam(sinceDate) == IF sinceDate # 0 THEN FormatDate(sinceDate) ELSE 0

\* the after parameter is set on every request built from a cursor
CursorAfterOverwritten(cursorAfter, sinceDate) == AfterParam(sinceDate)

\* if (sinceDate && !urlObj.searchParams.has('after')): the after parameter
\* of a request built from a stored cursor
CursorAfter(cursorAfter, sinceDate) ==
    IF cursorAfter # 0 THEN cursorAfter ELSE AfterParam(sinceDate)

\* the request of the page loop: page 0, or the page the stored cursor names;
\* the after parameter is the day of sinceDate unless the cursor carries one
PageRequest ==
    IF run.lastPage = 0
    THEN Request("page", run.cat.category_id, 0, AfterParam(run.cutoff), 0)
    ELSE Request("page", run.cat.category_id, page[run.lastPage].more_topics_url,
                 CursorAfter(page[run.lastPage].more_after, run.cutoff), 0)

\* crawlCategory: one page is fetched and createPage stores it
FetchPage ==
    /\ pc = "page"
    /\ LET rq == PageRequest
           json == ServerPage(rq.cat, rq.page, rq.after)
           nextPageId == IF run.lastPage = 0 THEN 0 ELSE page[run.lastPage].page_id + 1
           created == CreatePage([category_id |-> run.cat.id, page_id |-> nextPageId,
                                  more_topics_url |-> json.more_topics_url,
                                  more_after |-> json.more_after,
                                  topics |-> json.topics])
       IN /\ log' = Append(log, rq)
          /\ page' = created.table
          /\ run' = [run EXCEPT !.pageRow = created.id, !.more = json.more_topics_url,
                                !.listed = json.topics,
                                !.lastPage = IF json.topics = <<>> THEN created.id ELSE @]
          /\ pc' = IF json.topics # <<>> THEN "topics"
                   ELSE AfterPage(json.more_topics_url,
                                  created.table[created.id].more_topics_url)
    /\ UNCHANGED <<forum, category, topic, post, Env, opts, hist, obs>>

\* crawlCategory: the next listed topic is created unless it is found
CreateTopicStep ==
    /\ pc = "topics"
    /\ LET t == Head(run.listed)
           existingTopic == FindTopicByCategoryIdAndTopicId(run.cat.id, t)
       IN topic' = IF existingTopic # 0 THEN topic
                   ELSE CreateTopic([topic_id |-> t, category_id |-> run.cat.id,
                                     posts_crawled |-> FALSE, last_crawled_at |-> 0,
                                     created_at |-> 0]).table
    /\ run' = [run EXCEPT !.listed = Tail(@),
                          !.lastPage = IF Tail(run.listed) = <<>> THEN run.pageRow ELSE @]
    /\ pc' = IF Tail(run.listed) # <<>> THEN "topics"
             ELSE AfterPage(run.more, page[run.pageRow].more_topics_url)
    /\ UNCHANGED <<forum, category, page, post, Env, opts, log, hist, obs>>

\* crawlTopics is called inside the loop over the categories
AfterCategoryCollects(c) == "crawlTopics"

\* crawlForum: crawlCategory has returned, the loop over the categories goes on
AfterCategory(c) == "crawlCategory"

\* crawlCategory: updateCategory(pages_crawled: true)
MarkCategory ==
    /\ pc = "markCategory"
    /\ category' = UpdateCategory(run.cat.id, TRUE)
    /\ pc' = AfterCategory(run.cat)
    /\ UNCHANGED <<forum, page, topic, post, Env, opts, run, log, hist, obs>>

\* crawlForum: every category visited; crawlTopics: findCategoriesByForumId
EndCategories ==
    /\ pc = "crawlCategory"
    /\ run.cats = <<>>
    /\ run' = [run EXCEPT !.cats = CategoryObjects(category, run.forum.id), !.topics = <<>>]
    /\ pc' = "crawlTopics"
    /\ UNCHANGED <<store, Env, opts, log, hist, obs>>

\* the skip test of crawlTopics
SkipRule(t) ==
    /\ t.posts_crawled
    /\ ~opts.fullCrawl
    /\ IF opts.sinceDate # 0 /\ t.last_crawled_at # 0
       THEN t.last_crawled_at >= opts.sinceDate
       ELSE TRUE

\* crawlTopics: getTopicsByCategoryId of the next category
LoadTopics ==
    /\ pc = "crawlTopics"
    /\ run.topics = <<>>
    /\ run.cats # <<>>
    /\ run' = [run EXCEPT !.topics = TopicObjects(Head(run.cats).id), !.cats = Tail(@)]
    /\ UNCHANGED <<store, Env, pc, opts, log, hist, obs>>

\* crawlTopics: the next topic is skipped
SkipTopic ==
    /\ pc = "crawlTopics"
    /\ run.topics # <<>>
    /\ SkipRule(Head(run.topics))
    /\ run' = [run EXCEPT !.topics = Tail(@)]
    /\ UNCHANGED <<store, Env, pc, opts, log, hist, obs>>

\* crawlTopic of a topic whose posts_crawled is set: nothing is fetched
AlreadyCrawled ==
    /\ pc = "crawlTopics"
    /\ run.topics # <<>>
    /\ ~SkipRule(Head(run.topics))
    /\ ~(~Head(run.topics).posts_crawled)
    /\ run' = [run EXCEPT !.topics = Tail(@)]
    /\ UNCHANGED <<store, Env, pc, opts, log, hist, obs>>

\* crawlTopic: the primary document is fetched and updateTopic stores topic_json
FetchTopic ==
    /\ pc = "crawlTopics"
    /\ run.topics # <<>>
    /\ ~SkipRule(Head(run.topics))
    /\ ~Head(run.topics).posts_crawled
    /\ LET t == Head(run.topics)
       IN /\ log' = Append(log, Request("topic", 0, 0, 0, t.topic_id))
          /\ topic' = UpdateTopicJson(t.id, srv.created[t.topic_id])
          /\ run' = [run EXCEPT !.topic = t, !.topics = Tail(@),
                                !.resp = PrimaryPosts(t.id)]
    /\ pc' = "createPosts"
    /\ UNCHANGED <<forum, category, page, post, Env, opts, hist, obs>>

\* the stored post is compared with the incoming one whatever the options
OnExistingPostCompared(tbl, existingPost, p, fullCrawl) ==
    UpdatePostIfEdited(tbl, existingPost, p)

\* createPosts: else if (!this.options?.fullCrawl) updatePostIfEdited
OnExistingPost(tbl, existingPost, p, fullCrawl) ==
    IF ~fullCrawl THEN UpdatePostIfEdited(tbl, existingPost, p)
    ELSE [table |-> tbl, updated |-> FALSE]

\* createPosts over a post table: each post is created, or compared with the
\* stored one unless fullCrawl; returns the table and [updatedCount, posts.length]
RECURSIVE ReconcilePosts(_, _, _, _)
ReconcilePosts(tbl, posts, fullCrawl, updatedCount) ==
    IF posts = <<>> THEN [table |-> tbl, updatedCount |-> updatedCount]
    ELSE LET p == Head(posts)
             existingPost == First({i \in DOMAIN tbl : tbl[i].post_id = p.post_id
                                                        /\ tbl[i].topic_id = p.topic_id})
         IN IF existingPost = 0
            THEN ReconcilePosts(CreatePostIn(tbl, p).table, Tail(posts), fullCrawl,
                                updatedCount + 1)
            ELSE LET u == OnExistingPost(tbl, existingPost, p, fullCrawl)
                 IN ReconcilePosts(u.table, Tail(posts), fullCrawl,
                                   IF u.updated THEN updatedCount + 1 ELSE updatedCount)

\* createPosts(topic, jsonPosts): returns posts.length
CreatePosts(posts, fullCrawl) ==
    LET r == ReconcilePosts(post, posts, fullCrawl, 0)
    IN [table |-> r.table, nPosts |-> Len(posts)]

\* a loop that drops the identifiers it asked for, whatever came back
RemainingAfterRequested(remainingPosts, nPosts) ==
    Slice(remainingPosts, Min(BatchSize, Len(remainingPosts)))

\* a loop that advances by one identifier more than the response carried
RemainingAfterOneMore(remainingPosts, nPosts) == Slice(remainingPosts, nPosts + 1)

\* crawlTopic: remainingPosts.slice(nPosts)
RemainingAfter(remainingPosts, nPosts) == Slice(remainingPosts, nPosts)

\* crawlTopic: createPosts of the primary document, then
\* remainingPosts = stream.slice(nPosts)
ReconcilePrimary ==
    /\ pc = "createPosts"
    /\ LET r == CreatePosts(run.resp, opts.fullCrawl)
           remainingPosts == RemainingAfter(Manifest, r.nPosts)
       IN /\ post' = r.table
          /\ run' = [run EXCEPT !.remaining = remainingPosts, !.resp = <<>>]
          /\ pc' = IF Len(remainingPosts) > 0 THEN "batch" ELSE "stamp"
    /\ UNCHANGED <<forum, category, page, topic, Env, opts, log, hist, obs>>

\* the batch-posts requests of the current run
BatchFetches == Cardinality({i \in DOMAIN log : log[i].kind = "posts"})

\* every remaining identifier is asked for at once
NextPostsAll(remainingPosts) == remainingPosts

\* remainingPosts.slice(0, 20): the identifiers of the next request
NextPosts(remainingPosts) == Take(remainingPosts, BatchSize)

\* crawlTopic: one turn of the batch loop: the next identifiers are requested,
\* createPosts reconciles the answer, remainingPosts = remainingPosts.slice(nPosts)
FetchBatch ==
    /\ pc = "batch"
    /\ BatchFetches < MaxManifest + 2
    /\ LET nextPosts == NextPosts(run.remaining)
       IN \E n \in IF srv.partial THEN 0..Len(nextPosts) ELSE {Len(nextPosts)} :
            LET r == CreatePosts(BatchPosts(run.topic.id, nextPosts, n), opts.fullCrawl)
                remainingPosts == RemainingAfter(run.remaining, r.nPosts)
            IN /\ log' = Append(log, Request("posts", 0, 0, 0, run.topic.topic_id))
               /\ post' = r.table
               /\ run' = [run EXCEPT !.remaining = remainingPosts]
               /\ hist' = [hist EXCEPT !.before = run.remaining, !.asked = nextPosts, !.got = n]
               /\ pc' = IF Len(remainingPosts) > 0 THEN "batch" ELSE "stamp"
    /\ UNCHANGED <<forum, category, page, topic, Env, opts, obs>>

\* crawlTopic: updateTopicLastCrawled
Stamp ==
    /\ pc = "stamp"
    /\ topic' = UpdateTopicLastCrawled(run.topic.id)
    /\ pc' = "markTopic"
    /\ UNCHANGED <<forum, category, page, post, Env, opts, run, log, hist, obs>>

\* crawlTopic: if (!topic.posts_crawled) updateTopic(posts_crawled: true)
MarkTopic ==
    /\ pc = "markTopic"
    /\ topic' = IF ~run.topic.posts_crawled THEN UpdateTopicPostsCrawled(run.topic.id, TRUE)
                ELSE topic
    /\ pc' = "crawlTopics"
    /\ UNCHANGED <<forum, category, page, post, Env, opts, run, log, hist, obs>>

\* crawlTopics has visited every topic of every category: crawl() returns
FinishRun ==
    /\ pc = "crawlTopics"
    /\ run.topics = <<>>
    /\ run.cats = <<>>
    /\ pc' = "idle"
    /\ run' = Run0
    /\ hist' = [hist EXCEPT !.finished = TRUE]
    /\ UNCHANGED <<store, Env, opts, log, obs>>

-----------------------------------------------------------------------------
(* Failing steps: a fetch that throws or a persistence call that rejects,   *)
(* and what the try/catch blocks of crawler.ts do with the error            *)

\* one more step fails
Fail ==
    /\ faultsLeft > 0
    /\ faultsLeft' = faultsLeft - 1
    /\ UNCHANGED <<srv, plan, killsLeft, growsLeft, now>>

\* crawl: getForum threw; the error is logged and crawl returns
OnForumErrorSwallowed(url) == [pc |-> "idle", threw |-> FALSE]

\* crawl: getForum threw; the error is logged and thrown again
OnForumError(url) == [pc |-> "idle", threw |-> TRUE]

\* crawl: resetCrawledState threw; the error is logged
OnResetError(forumId) == [pc |-> "crawlForum", threw |-> FALSE]

\* crawlForum: discovery threw; thrown again as critical unless the forum
\* object says categories_crawled; crawl logs what crawlForum throws
OnDiscoveryError(categoriesCrawled) ==
    IF ~categoriesCrawled THEN [pc |-> "idle", threw |-> FALSE]
    ELSE [pc |-> "crawlCategory", threw |-> FALSE]

\* crawlForum: crawlCategory threw; the error is logged and the loop goes on
OnCategoryError(categoryId) == [pc |-> "crawlCategory", threw |-> FALSE]

\* crawlTopic: a step threw; the error is logged and crawlTopics goes on
OnTopicError(topicId) == [pc |-> "crawlTopics", threw |-> FALSE]

\* the run's history after a step failed and the handlers led to outcome o
Failed(at, id, o) ==
    [hist EXCEPT !.fault = [at |-> at, id |-> id],
                 !.threw = o.threw,
                 !.finished = (o.pc = "idle" /\ ~o.threw)]

\* getForum: findForum or createForum rejects
GetForumFails ==
    /\ pc = "getForum"
    /\ Fail
    /\ LET o == OnForumError(opts.url)
       IN /\ pc' = o.pc
          /\ hist' = Failed("getForum", 0, o)
    /\ run' = Run0
    /\ UNCHANGED <<store, opts, log, obs>>

\* resetCrawledState: the call of the current step rejects
ResetFails ==
    /\ pc \in {"resetForum", "resetCategory", "resetTopics"}
    /\ Fail
    /\ LET o == OnResetError(run.forum.id)
       IN /\ pc' = o.pc
          /\ hist' = Failed("reset", run.forum.id, o)
    /\ run' = [run EXCEPT !.cats = <<>>]
    /\ obs' = IF pc = "resetForum"
              THEN [op |-> "resetCrawledState", forum |-> run.forum.id, was |-> Stored]
              ELSE obs
    /\ UNCHANGED <<store, opts, log>>

\* crawlForum: the categories fetch throws or its payload is malformed
DiscoveryFails ==
    /\ pc = "crawlForum"
    /\ (~run.forum.categories_crawled \/ opts.fullCrawl)
    /\ Fail
    /\ LET o == OnDiscoveryError(run.forum.categories_crawled)
       IN /\ pc' = o.pc
          /\ hist' = Failed("discovery", run.forum.id, o)
          /\ run' = IF o.pc = "idle" THEN Run0
                    ELSE [run EXCEPT !.cats = CategoryObjects(category, run.forum.id)]
    /\ UNCHANGED <<store, opts, log, obs>>

\* crawlForum: createCategory rejects; the error is logged, next category
CreateCategoryFails ==
    /\ pc = "createCategory"
    /\ Fail
    /\ run' = [run EXCEPT !.listed = Tail(@)]
    /\ pc' = IF Tail(run.listed) = <<>> THEN "markForum" ELSE "createCategory"
    /\ hist' = [hist EXCEPT !.fault = [at |-> "createCategory", id |-> Head(run.listed)]]
    /\ UNCHANGED <<store, opts, log, obs>>

\* crawling.ts, crawlForum: crawlCategory is awaited outside any try block;
\* what it throws leaves crawlForum and crawl
OnCategoryErrorUncaught(categoryId) == [pc |-> "idle", threw |-> TRUE]

\* crawlCategory throws at the current step and the callers lead to outcome o
CategoryFailure(o) ==
    /\ pc \in {"page", "topics", "markCategory"}
    /\ Fail
    /\ pc' = o.pc
    /\ hist' = Failed("category", run.cat.id, o)
    /\ run' = IF o.pc = "idle" THEN Run0 ELSE run
    /\ UNCHANGED <<store, opts, log, obs>>

\* crawlCategory: the page fetch or a persistence call of the current step throws
CategoryFails == CategoryFailure(OnCategoryError(run.cat.id))

\* the same failure in the crawler of crawling.ts
CrawlingCategoryFails == CategoryFailure(OnCategoryErrorUncaught(run.cat.id))

\* crawlTopic: the primary fetch throws
TopicFetchFails ==
    /\ pc = "crawlTopics"
    /\ run.topics # <<>>
    /\ ~SkipRule(Head(run.topics))
    /\ ~Head(run.topics).posts_crawled
    /\ Fail
    /\ LET t == Head(run.topics)
           o == OnTopicError(t.id)
       IN /\ pc' = o.pc
          /\ hist' = [Failed("topic", t.id, o) EXCEPT !.fault = [at |-> "topic", id |-> t.id, was |-> t]]
          /\ run' = IF o.pc = "idle" THEN Run0 ELSE [run EXCEPT !.topics = Tail(@)]
    /\ UNCHANGED <<store, opts, log, obs>>

\* crawlTopic: a batch fetch or a persistence call of the current step throws
TopicFails ==
    /\ pc \in {"createPosts", "batch", "stamp", "markTopic"}
    /\ Fail
    /\ LET t == run.topic
           o == OnTopicError(t.id)
       IN /\ pc' = o.pc
          /\ hist' = [Failed("topic", t.id, o) EXCEPT !.fault = [at |-> "topic", id |-> t.id, was |-> t]]
          /\ run' = IF o.pc = "idle" THEN Run0 ELSE run
    /\ UNCHANGED <<store, opts, log, obs>>

\* the steps that fail
Faults ==
    \/ GetForumFails
    \/ ResetFails
    \/ DiscoveryFails
    \/ CreateCategoryFails
    \/ CategoryFails
    \/ TopicFetchFails
    \/ TopicFails

-----------------------------------------------------------------------------
(* limitedFetch: admission by the rate limiter, the GET, and the retries *)

\* the base urls of the crawlers
Urls == {1, 2}

\* retries = 3: the retry budget of one limitedFetch call
Retries == 3

\* the wait when the rate limiter's rejection reports no msBeforeNext
DefaultWait == 60000

\* error.msBeforeNext || 60000: an absent or zero msBeforeNext gives the default
WaitTime(msBeforeNext) == IF msBeforeNext = 0 THEN DefaultWait ELSE msBeforeNext

\* the cooldowns a rejection of rateLimiter.consume may report; 0 when absent
Cooldowns == 0..MaxWait

\* after the wait nothing is retried: the rate-limit error is thrown
AfterDenialGivesUp(retries) == "exhausted"

\* after the wait: if (retries > 0) return limitedFetch(url, retries - 1),
\* else throw 'Rate limit retries exhausted'
AfterDenial(retries) == IF retries > 0 THEN "retry" ELSE "exhausted"

\* an error of axios.get takes the path of a rate-limit rejection
OnGetErrorRetries(retries) == IF retries > 0 THEN "retry" ELSE "failed"

\* an error without remainingPoints: throw 'Failed to fetch'
OnGetError(retries) == "failed"

\* limitedFetch(url) is called
CallLimitedFetch ==
    /\ pc = "idle"
    /\ \E u \in Urls :
         obs' = [op |-> "limitedFetch", url |-> u, retries |-> Retries, attempts |-> 0,
                 reported |-> <<>>, waits |-> <<>>, got |-> <<>>, outcome |-> "pending"]
    /\ pc' = "consume"
    /\ UNCHANGED <<store, Env, opts, run, log, hist>>

\* rateLimiter.consume resolves, then the pause of options.rateLimit
Admitted ==
    /\ pc = "consume"
    /\ obs' = [obs EXCEPT !.attempts = @ + 1]
    /\ pc' = "get"
    /\ UNCHANGED <<store, Env, opts, run, log, hist>>

\* rateLimiter.consume rejects with remainingPoints and msBeforeNext
Denied ==
    /\ pc = "consume"
    /\ \E ms \in Cooldowns :
         obs' = [obs EXCEPT !.attempts = @ + 1, !.reported = Append(@, ms)]
    /\ pc' = "wait"
    /\ UNCHANGED <<store, Env, opts, run, log, hist>>

\* the catch of a rejection: the wait, then the retry or the error
Cooldown ==
    /\ pc = "wait"
    /\ LET waited == Append(obs.waits, WaitTime(obs.reported[Len(obs.reported)]))
           then == AfterDenial(obs.retries)
       IN IF then = "retry"
          THEN /\ obs' = [obs EXCEPT !.waits = waited, !.retries = @ - 1]
               /\ pc' = "consume"
          ELSE /\ obs' = [obs EXCEPT !.waits = waited, !.outcome = then]
               /\ pc' = "idle"
    /\ UNCHANGED <<store, Env, opts, run, log, hist>>

\* axios.get resolves: response.data is returned
GetSucceeds ==
    /\ pc = "get"
    /\ obs' = [obs EXCEPT !.got = Append(@, obs.url), !.outcome = "data"]
    /\ pc' = "idle"
    /\ UNCHANGED <<store, Env, opts, run, log, hist>>

\* axios.get rejects: a non-2xx response or a network failure
GetFails ==
    /\ pc = "get"
    /\ LET then == OnGetError(obs.retries)
       IN IF then = "retry"
          THEN /\ obs' = [obs EXCEPT !.got = Append(@, obs.url), !.retries = @ - 1]
               /\ pc' = "consume"
          ELSE /\ obs' = [obs EXCEPT !.got = Append(@, obs.url), !.outcome = then]
               /\ pc' = "idle"
    /\ UNCHANGED <<store, Env, opts, run, log, hist>>

-----------------------------------------------------------------------------
(* The environment of the runs *)

\* the process is terminated between two steps of a run
Kill ==
    /\ pc # "idle"
    /\ killsLeft > 0
    /\ killsLeft' = killsLeft - 1
    /\ pc' = "idle"
    /\ run' = Run0
    /\ hist' = [hist EXCEPT !.killed = TRUE]
    /\ UNCHANGED <<store, srv, plan, growsLeft, faultsLeft, now, opts, log, obs>>

\* the topics the server holds
ServerTopics == {t \in DOMAIN srv.created : srv.created[t] # 0}

\* between two runs a new topic appears at the head of a category's listing
ServerGrow ==
    /\ pc = "idle"
    /\ hist.finished
    /\ plan # <<>>
    /\ growsLeft > 0
    /\ Cardinality(ServerTopics) < MaxTopicId
    /\ \E i \in DOMAIN srv.cats :
         LET t == Cardinality(ServerTopics) + 1
         IN srv' = [srv EXCEPT !.list[i] = <<t>> \o @, !.created[t] = now]
    /\ growsLeft' = growsLeft - 1
    /\ hist' = [hist EXCEPT !.grown = @ + 1]
    /\ UNCHANGED <<store, plan, killsLeft, faultsLeft, now, pc, opts, run, log, obs>>

\* the store without its clock readings: rows, keys and flags
StoreView ==
    [forum |-> forum, category |-> category, page |-> page, post |-> post,
     topic |-> [i \in DOMAIN topic |->
                  [topic[i] EXCEPT !.last_crawled_at = IF @ = 0 THEN 0 ELSE 1]]]

\* Database.create on a new path: the finished store is kept for comparison
\* and the following runs work on empty tables
FreshStore ==
    /\ pc = "idle"
    /\ hist.finished
    /\ hist.ref = <<>>
    /\ hist' = [hist EXCEPT !.ref = <<StoreView>>, !.finished = FALSE]
    /\ forum' = <<>>
    /\ category' = <<>>
    /\ page' = <<>>
    /\ topic' = <<>>
    /\ post' = <<>>
    /\ UNCHANGED <<Env, pc, opts, run, log, obs>>

-----------------------------------------------------------------------------
(* The store called directly, as createPosts and the crawl steps call it *)

\* what a create call did: whether the key was stored, what came back
Observed(op, tbl, S, r) ==
    [op |-> op, existed |-> S # {}, stored |-> First(S),
     inserted |-> Len(r.table) - Len(tbl), returned |-> r.id, threw |-> r.threw]

\* createCategory({category_id, forum_id, ...}) for a stored forum
CallCreateCategory ==
    /\ pc = "idle"
    /\ \E f \in DOMAIN forum, c \in 1..2 :
         LET new == [forum_id |-> f, category_id |-> c, pages_crawled |-> FALSE]
             r == CreateCategory(new)
         IN /\ Len(r.table) <= MaxRows
            /\ category' = r.table
            /\ obs' = Observed("createCategory", category,
                               {i \in DOMAIN category : category[i].forum_id = f
                                                        /\ category[i].category_id = c}, r)
    /\ UNCHANGED <<forum, page, topic, post, Env, pc, opts, run, log, hist>>

\* createTopic({topic_id, category_id, ...}) for a stored category
CallCreateTopic ==
    /\ pc = "idle"
    /\ \E c \in DOMAIN category, t \in 1..MaxTopicId :
         LET new == [category_id |-> c, topic_id |-> t, created_at |-> 0,
                     posts_crawled |-> FALSE, last_crawled_at |-> 0]
             r == CreateTopic(new)
         IN /\ Len(r.table) <= MaxRows
            /\ topic' = r.table
            /\ obs' = Observed("createTopic", topic,
                               {i \in DOMAIN topic : topic[i].category_id = c
                                                     /\ topic[i].topic_id = t}, r)
    /\ UNCHANGED <<forum, category, page, post, Env, pc, opts, run, log, hist>>

\* createPost({post_id, topic_id, json}) for a stored topic
CallCreatePost ==
    /\ pc = "idle"
    /\ \E t \in DOMAIN topic, id \in 1..2 :
         LET r == CreatePost(ServerPost(t, id))
         IN /\ Len(r.table) <= MaxRows
            /\ post' = r.table
            /\ obs' = Observed("createPost", post,
                               {i \in DOMAIN post : post[i].topic_id = t
                                                    /\ post[i].post_id = id}, r)
    /\ UNCHANGED <<forum, category, page, topic, Env, pc, opts, run, log, hist>>

\* the snapshots a post's JSON may carry: version and updated_at may be absent
Snapshots(topicRow, id) ==
    {[post_id |-> id, topic_id |-> topicRow, version |-> v, updated_at |-> u, created_at |-> c] :
       v \in 0..MaxVersion, u \in 0..MaxStamp, c \in 0..MaxStamp}

\* createPosts of a non-full crawl for a response that carries one post
\* which is already stored
CallCreatePosts ==
    /\ pc = "idle"
    /\ \E id \in DOMAIN post :
         \E incoming \in Snapshots(post[id].topic_id, post[id].post_id) :
            LET r == ReconcilePosts(post, <<incoming>>, FALSE, 0)
            IN /\ post' = r.table
               /\ obs' = [op |-> "createPosts", id |-> id, stored |-> post[id],
                          incoming |-> incoming, updatedCount |-> r.updatedCount]
    /\ UNCHANGED <<forum, category, page, topic, Env, pc, opts, run, log, hist>>

\* createPosts of a full crawl for a response that carries a post which is
\* already stored, alone or next to the second post of the topic
CallCreatePostsFullCrawl ==
    /\ pc = "idle"
    /\ \E id \in DOMAIN post :
         \E incoming \in Snapshots(post[id].topic_id, post[id].post_id),
            posts \in {<<>>, <<ServerPost(post[id].topic_id, 2)>>},
            first \in BOOLEAN :
            LET r == ReconcilePosts(post, IF first THEN <<incoming>> \o posts
                                          ELSE posts \o <<incoming>>, TRUE, 0)
            IN /\ post' = r.table
               /\ obs' = [op |-> "createPostsFullCrawl", id |-> id,
                          newer |-> /\ incoming.version > post[id].version
                                    /\ incoming.updated_at > post[id].updated_at,
                          asked |-> {2 : i \in DOMAIN posts} \cup {post[id].post_id},
                          updatedCount |-> r.updatedCount]
    /\ UNCHANGED <<forum, category, page, topic, Env, pc, opts, run, log, hist>>

-----------------------------------------------------------------------------
(* Forum resolution of crawl() runs that overlap on one store: pc, opts and *)
(* run hold one entry for each of them.                                     *)

\* the crawl() runs that may be in progress at once
Crawls == {1, 2}

\* crawl() is called: getForum is entered
OverlapStart(p) ==
    /\ pc[p] = "idle"
    /\ plan # <<>>
    /\ \E o \in Head(plan) : opts' = [opts EXCEPT ![p] = o]
    /\ plan' = Tail(plan)
    /\ pc' = [pc EXCEPT ![p] = "getForum"]
    /\ run' = [run EXCEPT ![p] = [forum |-> 0, seen |-> 0]]
    /\ UNCHANGED <<store, srv, killsLeft, growsLeft, faultsLeft, now, log, hist, obs>>

\* getForum: await findForum(baseUrl)
OverlapFind(p) ==
    /\ pc[p] = "getForum"
    /\ LET found == FindForum(opts[p].url)
       IN /\ run' = [run EXCEPT ![p] = [forum |-> found, seen |-> Len(forum)]]
          /\ pc' = [pc EXCEPT ![p] = IF found # 0 THEN "return" ELSE "createForum"]
    /\ UNCHANGED <<store, Env, opts, log, hist, obs>>

\* getForum: if (!forum) await createForum({url, categories_crawled: false})
OverlapCreate(p) ==
    /\ pc[p] = "createForum"
    /\ forum' = CreateForum([url |-> opts[p].url, categories_crawled |-> FALSE])
    /\ run' = [run EXCEPT ![p].forum = Len(forum')]
    /\ pc' = [pc EXCEPT ![p] = "return"]
    /\ UNCHANGED <<category, page, topic, post, Env, opts, log, hist, obs>>

\* getForum returns its forum to crawl()
OverlapReturn(p) ==
    /\ pc[p] = "return"
    /\ pc' = [pc EXCEPT ![p] = "idle"]
    /\ UNCHANGED <<store, Env, opts, run, log, hist, obs>>

-----------------------------------------------------------------------------
(* DiscourseCrawler.create: the rate limiter of a crawler *)

\* Math.round(n / d) for positive n and d: the nearest integer, halves up
Round(n, d) == (2 * n + d) \div (2 * d)

\* points: options?.rateLimit ? Math.round(1000 / options?.rateLimit) : 3
Points(rateLimit) == IF rateLimit # 0 THEN Round(1000, rateLimit) ELSE 3

\* limitedFetch: const rateLimit = this.options?.rateLimit || 500
PacingDelay(rateLimit) == IF rateLimit # 0 THEN rateLimit ELSE 500

\* DiscourseCrawler.create(url, dbPath, {rateLimit}); 0 stands for the
\* option being absent
CreateCrawler ==
    /\ pc = "idle"
    /\ obs = Obs0
    /\ \E rateLimit \in 0..MaxRateLimit :
         obs' = [op |-> "create", rateLimit |-> rateLimit,
                 points |-> Points(rateLimit), delay |-> PacingDelay(rateLimit)]
    /\ UNCHANGED <<store, Env, pc, opts, run, log, hist>>

-----------------------------------------------------------------------------
(* Initial states: an empty store, a server, and the runs to come *)

Option(fullCrawl, sinceDate, url) ==
    [fullCrawl |-> fullCrawl, sinceDate |-> sinceDate, url |-> url]

\* crawl() without options on the first url
Default == Option(FALSE, 0, 1)

\* --since=YYYY-MM-DD: the first tick of a day; 0 when the option is absent
SinceDates == {0} \cup {TicksPerDay * d : d \in 1..MaxDay}

\* the tables of a store Database.create has just initialised
Stored0 == [forum |-> <<>>, category |-> <<>>, page |-> <<>>, topic |-> <<>>, post |-> <<>>]

Hist0 ==
    [runs |-> 0, doneAtStart |-> {}, pagesAtStart |-> {}, topicAtStart |-> <<>>,
     killed |-> FALSE, resumed |-> FALSE, finished |-> FALSE, threw |-> FALSE,
     fault |-> NoFault, storeAtStart |-> Stored0, resets |-> 0, grown |-> 0, ref |-> <<>>,
     before |-> <<>>, asked |-> <<>>, got |-> 0]

\* the ids of S as a sequence, greatest (newest) first
Newest(S) == Reverse(Ascending(S))

\* servers whose topics 1..k are spread over the categories, newest first
Servers(catSeqs, ks, psizes, mlens, primaries, partials) ==
    UNION {
      { [cats |-> cats,
         list |-> [i \in DOMAIN cats |-> Newest({t \in 1..k : a[t] = i})],
         created |-> [t \in 1..MaxTopicId |-> IF t <= k THEN t ELSE 0],
         psize |-> ps, mlen |-> ml, primary |-> pr, partial |-> pa, pver |-> 1, pupd |-> 1,
         echo |-> FALSE]
        : a \in [1..k -> DOMAIN cats], ps \in psizes, ml \in mlens,
          pr \in primaries, pa \in partials }
      : cats \in catSeqs, k \in ks }

InitFaulty(servers, plans, kills, grows, faults) ==
    /\ forum = <<>>
    /\ category = <<>>
    /\ page = <<>>
    /\ topic = <<>>
    /\ post = <<>>
    /\ srv \in servers
    /\ plan \in plans
    /\ killsLeft = kills
    /\ growsLeft = grows
    /\ faultsLeft = faults
    /\ now = MaxTopicId
    /\ pc = "idle"
    /\ opts = Default
    /\ run = Run0
    /\ log = <<>>
    /\ hist = Hist0
    /\ obs = Obs0

\* a store and a server whose steps do not fail
InitWith(servers, plans, kills, grows) ==
    InitFaulty(servers, plans, kills, grows, 0)

\* the steps of a first, uninterrupted run without options
Core ==
    \/ StartRun
    \/ GetForum
    \/ FetchCategories
    \/ CreateCategoryStep
    \/ MarkForum
    \/ BeginCategory
    \/ FetchPage
    \/ CreateTopicStep
    \/ MarkCategory
    \/ EndCategories
    \/ LoadTopics
    \/ FetchTopic
    \/ ReconcilePrimary
    \/ Stamp
    \/ MarkTopic
    \/ FinishRun

\* the steps only a later run on the same store takes
Again ==
    \/ SkipCategories
    \/ SkipCategory
    \/ SkipTopic

\* the steps of resetCrawledState
Reset ==
    \/ ResetForum
    \/ ResetCategory
    \/ ResetTopics

(* Spec: a run without options on an empty store, more topics may then      *)
(* appear on the server, and a second run with any options follows.         *)

Init ==
    InitWith(Servers({<<1>>, <<2, 1>>}, 0..MaxTopicId, 1..MaxPageSize, {2}, {1, 2}, {FALSE}),
             {<<{Default}, {Option(f, d, 1) : f \in BOOLEAN, d \in SinceDates}>>},
             0, 1)

Next ==
    \/ Core
    \/ Again
    \/ Reset
    \/ FetchBatch
    \/ AlreadyCrawled
    \/ ServerGrow

Spec == Init /\ [][Next]_vars

(* SpecScenario: one run without options on an empty store against a server *)
(* with one category whose three topics fill two listing pages, every topic *)
(* carrying its five posts in the primary document.                         *)

\* the listings of three different topics, in any order
Listings3 ==
    {l \in [1..3 -> 1..MaxTopicId] : \A i, j \in 1..3 : i # j => l[i] # l[j]}

InitScenario ==
    InitWith({ [cats |-> <<c>>,
                list |-> <<l>>,
                created |-> [t \in 1..MaxTopicId |-> IF t \in Range(l) THEN t ELSE 0],
                psize |-> 2, mlen |-> 5, primary |-> 5, partial |-> FALSE,
                pver |-> 1, pupd |-> 1, echo |-> FALSE] : c \in {1, 2}, l \in Listings3 },
             {<<{Default}>>}, 0, 0)

NextScenario == Core

SpecScenario == InitScenario /\ [][NextScenario]_vars

(* SpecResume: three runs without options against the same server content. *)
(* One of them is terminated at some step and the next one resumes on its   *)
(* store; an uninterrupted run works on a store of its own.                 *)

InitResume ==
    InitWith(Servers({<<1>>, <<2, 1>>}, 1..MaxTopicId, 1..MaxPageSize, {2}, {2}, {FALSE}),
             {<<{Default}, {Default}, {Default}>>}, 1, 0)

NextResume ==
    \/ Core
    \/ Again
    \/ Kill
    \/ FreshStore

SpecResume == InitResume /\ [][NextResume]_vars

(* SpecBatch: one run without options on a topic whose manifest is longer   *)
(* than its primary document and than one batch; the server may answer a    *)
(* batch request with fewer posts than were asked for.                      *)

InitBatch ==
    InitWith(Servers({<<1>>}, {1}, {1}, {MaxManifest - 1, MaxManifest}, {1, 2}, {TRUE}),
             {<<{Default}>>}, 0, 0)

NextBatch ==
    \/ Core
    \/ FetchBatch

SpecBatch == InitBatch /\ [][NextBatch]_vars

(* SpecBatchLive: the run of SpecBatch in which the crawler takes its next  *)
(* step whenever it has one: the awaits of crawlTopic resolve; what a       *)
(* batch-posts response carries stays the server's choice.                  *)

SpecBatchLive == InitBatch /\ [][NextBatch]_vars /\ WF_vars(NextBatch)

(* SpecReset: a run on each of two forums kept in one store, then a         *)
(* full-crawl run on one of them.                                           *)

InitReset ==
    InitWith(Servers({<<1>>, <<2, 1>>}, 1..2, 1..MaxPageSize, {2}, {2}, {FALSE}),
             {<<{Option(FALSE, 0, 1)}, {Option(FALSE, 0, 2)},
                {Option(TRUE, 0, u) : u \in Urls}>>}, 0, 0)

NextReset ==
    \/ Core
    \/ Reset

SpecReset == InitReset /\ [][NextReset]_vars

(* SpecDb: the create operations of the store called in any order on a      *)
(* store that holds two forums.                                             *)

\* a server for the specifications that do not fetch
OneTopicServer ==
    CHOOSE x \in Servers({<<1>>}, {1}, {1}, {2}, {2}, {FALSE}) : TRUE

InitDb ==
    /\ forum = <<[url |-> 1, categories_crawled |-> FALSE],
                 [url |-> 2, categories_crawled |-> FALSE]>>
    /\ category = <<>>
    /\ page = <<>>
    /\ topic = <<>>
    /\ post = <<>>
    /\ srv = OneTopicServer
    /\ plan = <<>>
    /\ killsLeft = 0
    /\ growsLeft = 0
    /\ faultsLeft = 0
    /\ now = MaxTopicId
    /\ pc = "idle"
    /\ opts = Default
    /\ run = Run0
    /\ log = <<>>
    /\ hist = Hist0
    /\ obs = Obs0

NextDb ==
    \/ CallCreateCategory
    \/ CallCreateTopic
    \/ CallCreatePost

SpecDb == InitDb /\ [][NextDb]_vars

(* SpecPost: a store that holds one post, whose snapshot is any, and        *)
(* createPosts of a non-full crawl called with any snapshot of that post.   *)

InitPost ==
    /\ forum = <<[url |-> 1, categories_crawled |-> TRUE]>>
    /\ category = <<[forum_id |-> 1, category_id |-> 1, pages_crawled |-> TRUE]>>
    /\ page = <<[category_id |-> 1, page_id |-> 0, topics |-> <<1>>, more_topics_url |-> 0,
                 more_after |-> 0]>>
    /\ topic = <<[category_id |-> 1, topic_id |-> 1, created_at |-> 1,
                  posts_crawled |-> FALSE, last_crawled_at |-> 0]>>
    /\ \E stored \in Snapshots(1, 1) : post = <<stored>>
    /\ srv = OneTopicServer
    /\ plan = <<>>
    /\ killsLeft = 0
    /\ growsLeft = 0
    /\ faultsLeft = 0
    /\ now = MaxTopicId
    /\ pc = "idle"
    /\ opts = Default
    /\ run = Run0
    /\ log = <<>>
    /\ hist = Hist0
    /\ obs = Obs0

NextPost == CallCreatePosts

SpecPost == InitPost /\ [][NextPost]_vars

(* SpecFullPost: the same store, and createPosts of a full crawl called     *)
(* with any snapshot of a stored post, alone or with the topic's second post. *)

NextFullPost == CallCreatePostsFullCrawl

SpecFullPost == InitPost /\ [][NextFullPost]_vars

(* SpecOverlap: four crawl() runs on an empty store, each for one of two    *)
(* urls, of which two may be in progress at once; only their forum          *)
(* resolution is followed.                                                  *)

InitOverlap ==
    /\ forum = <<>>
    /\ category = <<>>
    /\ page = <<>>
    /\ topic = <<>>
    /\ post = <<>>
    /\ srv = OneTopicServer
    /\ plan = [i \in 1..4 |-> {Option(FALSE, 0, u) : u \in Urls}]
    /\ killsLeft = 0
    /\ growsLeft = 0
    /\ faultsLeft = 0
    /\ now = MaxTopicId
    /\ pc = [p \in Crawls |-> "idle"]
    /\ opts = [p \in Crawls |-> Default]
    /\ run = [p \in Crawls |-> [forum |-> 0, seen |-> 0]]
    /\ log = <<>>
    /\ hist = Hist0
    /\ obs = Obs0

NextOverlap ==
    \E p \in Crawls :
       \/ OverlapStart(p)
       \/ OverlapFind(p)
       \/ OverlapCreate(p)
       \/ OverlapReturn(p)

SpecOverlap == InitOverlap /\ [][NextOverlap]_vars

(* SpecFault: a run without options, then a run with any options on the     *)
(* same store; one step of one of the two runs fails.                       *)

InitFault ==
    InitFaulty(Servers({<<1>>, <<2, 1>>}, 0..2, 1..MaxPageSize, {2}, {1, 2}, {FALSE}),
               {<<{Default}, {Option(f, d, 1) : f \in BOOLEAN, d \in SinceDates}>>},
               0, 0, 1)

NextFault ==
    \/ Core
    \/ Again
    \/ Reset
    \/ FetchBatch
    \/ AlreadyCrawled
    \/ Faults

SpecFault == InitFault /\ [][NextFault]_vars

(* SpecCrawling: the crawler of crawling.ts, the module index.ts imports: a *)
(* run without options on an empty store, then a full-crawl run on the same *)
(* store. Its steps are those of crawler.ts but for the test that guards    *)
(* discovery and for what follows a failure; one step of a category walk    *)
(* may fail.                                                                *)

InitCrawling ==
    InitFaulty(Servers({<<1>>, <<2, 1>>}, 0..2, 1..MaxPageSize, {2}, {1, 2}, {FALSE}),
               {<<{Default}, {Option(TRUE, 0, 1)}>>}, 0, 0, 1)

NextCrawling ==
    \/ StartRun
    \/ GetForum
    \/ Reset
    \/ CrawlingFetchCategories
    \/ CrawlingSkipCategories
    \/ CreateCategoryStep
    \/ MarkForum
    \/ BeginCategory
    \/ FetchPage
    \/ CreateTopicStep
    \/ MarkCategory
    \/ EndCategories
    \/ LoadTopics
    \/ FetchTopic
    \/ ReconcilePrimary
    \/ FetchBatch
    \/ Stamp
    \/ MarkTopic
    \/ FinishRun
    \/ CrawlingCategoryFails

SpecCrawling == InitCrawling /\ [][NextCrawling]_vars

(* SpecFetch: calls of limitedFetch; the rate limiter admits or rejects each *)
(* attempt and the GET succeeds or fails.                                   *)

InitFetch == InitWith({OneTopicServer}, {<<>>}, 0, 0)

NextFetch ==
    \/ CallLimitedFetch
    \/ Admitted
    \/ Denied
    \/ Cooldown
    \/ GetSucceeds
    \/ GetFails

SpecFetch == InitFetch /\ [][NextFetch]_vars

(* SpecCreate: crawlers are created with any per-request delay up to       *)
(* MaxRateLimit milliseconds, or without one.                               *)

NextCreate == CreateCrawler

SpecCreate == InitFetch /\ [][NextCreate]_vars

(* SpecKill: a run without options, then a run with any options on the same *)
(* store; one of the two may be terminated between two of its steps.        *)

InitKill ==
    InitWith(Servers({<<1>>, <<2, 1>>}, 0..2, 1..MaxPageSize, {2}, {1, 2}, {FALSE}),
             {<<{Default}, {Option(f, d, 1) : f \in BOOLEAN, d \in SinceDates}>>},
             1, 0)

NextKill ==
    \/ Core
    \/ Again
    \/ Reset
    \/ FetchBatch
    \/ AlreadyCrawled
    \/ Kill

SpecKill == InitKill /\ [][NextKill]_vars

(* SpecCutoff: a run with a since-date on an empty store whose walk of one  *)
(* category may fail, against a server that lists one topic a page and may  *)
(* or may not repeat the after parameter in the cursors it hands out; a     *)
(* second run with any options follows on the same store. The topics are   *)
(* one tick younger than elsewhere, so that the earliest since-date lists   *)
(* them all.                                                                *)

InitCutoff ==
    InitFaulty({[s EXCEPT !.echo = e,
                          !.created = [t \in DOMAIN s.created |->
                                         IF s.created[t] # 0 THEN s.created[t] + 1 ELSE 0]] :
                  s \in Servers({<<2, 1>>}, 2..MaxTopicId, {1}, {2}, {2}, {FALSE}),
                  e \in BOOLEAN},
               {<<{Option(FALSE, d, 1) : d \in SinceDates},
                  {Option(f, d, 1) : f \in BOOLEAN, d \in SinceDates}>>},
               0, 0, 1)

NextCutoff ==
    \/ Core
    \/ Again
    \/ Reset
    \/ CategoryFails

SpecCutoff == InitCutoff /\ [][NextCutoff]_vars

-----------------------------------------------------------------------------
(* Properties *)

\* the listing-page requests of the current run for remote category c, in order
RECURSIVE PageRequests(_, _)
PageRequests(l, c) ==
    IF l = <<>> THEN <<>>
    ELSE IF Head(l).kind = "page" /\ Head(l).cat = c
         THEN <<Head(l)>> \o PageRequests(Tail(l), c)
         ELSE PageRequests(Tail(l), c)

\* the requests of one kind in the current run
Fetches(kind) == Cardinality({i \in DOMAIN log : log[i].kind = kind})

\* the page rows stored for category row id
PagesOf(id) == {i \in DOMAIN page : page[i].category_id = id}

\* the walker has left the page loop of a category that had no page stored
\* when the run started
WalkedFromScratch ==
    /\ pc \in {"markCategory", "crawlCategory"}
    /\ run.cat.id # 0
    /\ run.cat.id \notin hist.pagesAtStart

\* C6 Pagination termination: a category without a stored Page, for which the
\* server offers a chain of k listing pages, is walked with exactly k requests,
\* for pages 0..k-1 in order, exactly k Page rows are stored, no request follows
\* a page whose cursor is null, and the Category is then marked pages_crawled.
C6_PaginationTermination ==
    /\ WalkedFromScratch =>
         LET rqs == PageRequests(log, run.cat.category_id)
             k == PagesOffered(run.cat.category_id,
                               AfterParam(run.cutoff))
         IN /\ Len(rqs) = k
            /\ \A i \in 1..k : rqs[i].page = i - 1
            /\ {page[i].page_id : i \in PagesOf(run.cat.id)} = 0..(k - 1)
            /\ Cardinality(PagesOf(run.cat.id)) = k
            /\ (pc = "crawlCategory" => category[run.cat.id].pages_crawled)
    /\ \A i, j \in DOMAIN log :
         (/\ i < j
          /\ log[i].kind = "page"
          /\ log[j].kind = "page"
          /\ log[i].cat = log[j].cat)
         => ServerPage(log[i].cat, log[i].page, log[i].after).more_topics_url # 0

\* a chain of two pages or more has been walked to its end
C6_Witness ==
    /\ WalkedFromScratch
    /\ pc = "crawlCategory"
    /\ Len(PageRequests(log, run.cat.category_id)) >= 2
    /\ category[run.cat.id].pages_crawled

\* the forum row of the current run's url
ThisForum == FindForum(opts.url)

\* the topic rows that were stored under this forum when the run started
StoredAtStart ==
    {i \in DOMAIN hist.topicAtStart :
       category[hist.topicAtStart[i].category_id].forum_id = ThisForum}

\* the collector fetched the primary document of remote topic t in this run
Visited(t) == \E i \in DOMAIN log : log[i].kind = "topic" /\ log[i].topic = t

\* the stated rule: a topic is left alone exactly when it is posts_crawled,
\* full-crawl is off, and no since-date is set or last_crawled_at >= since-date
StatedSkip(t) ==
    /\ t.posts_crawled
    /\ ~opts.fullCrawl
    /\ (opts.sinceDate = 0 \/ (t.last_crawled_at # 0 /\ t.last_crawled_at >= opts.sinceDate))

\* C3 Since-date override / skip rule: in a finished run every Topic that was
\* stored when the run started has been re-visited (its primary document
\* fetched) unless posts_crawled AND full-crawl off AND (no since-date OR
\* last_crawled_at >= since-date).
C3_SkipRule ==
    (pc = "idle" /\ hist.finished) =>
        \A i \in StoredAtStart :
            Visited(hist.topicAtStart[i].topic_id) <=> ~StatedSkip(hist.topicAtStart[i])

\* the category rows of this forum
ForumCategories == {i \in DOMAIN category : category[i].forum_id = ThisForum}

\* remote topic t has a Topic row under category row c
HasTopicRow(c, t) == \E i \in DOMAIN topic : topic[i].category_id = c /\ topic[i].topic_id = t

\* every post of the manifest has a Post row under the Topic row of (c, t)
HasPostRows(c, t) ==
    \E i \in DOMAIN topic :
        /\ topic[i].category_id = c
        /\ topic[i].topic_id = t
        /\ \A k \in DOMAIN Manifest :
             \E j \in DOMAIN post : post[j].topic_id = i /\ post[j].post_id = Manifest[k]

\* C8 Full-crawl re-walks the hierarchy: a finished full-crawl run on a forum
\* whose categories were all completely walked by an earlier run has requested
\* the listing of every category again, from page 0, and every topic the
\* server now lists has a Topic row.
C8_FullCrawlRewalks ==
    (pc = "idle" /\ hist.finished /\ hist.runs = 2 /\ opts.fullCrawl) =>
        \A c \in ForumCategories :
            /\ PageRequests(log, category[c].category_id) # <<>>
            /\ Head(PageRequests(log, category[c].category_id)).page = 0
            /\ \A k \in DOMAIN ServerListing(category[c].category_id, 0) :
                 c \in hist.doneAtStart =>
                   (srv.created[ServerListing(category[c].category_id, 0)[k]] > MaxTopicId
                      => HasTopicRow(c, ServerListing(category[c].category_id, 0)[k]))

\* the topics that appeared on the server after the first run started
Grown == {t \in ServerTopics : srv.created[t] > MaxTopicId}

\* C9 Incremental update: a finished non-full run without since-date, on a
\* store a previous run completed, leaves a Topic row and the Post rows for
\* every topic that was added to a category's listing after the previous run.
C9_IncrementalUpdate ==
    (pc = "idle" /\ hist.finished /\ hist.runs = 2 /\ ~opts.fullCrawl /\ opts.sinceDate = 0) =>
        \A c \in ForumCategories :
            \A t \in Grown :
                t \in Range(ServerListing(category[c].category_id, 0))
                  => HasTopicRow(c, t) /\ HasPostRows(c, t)

\* C1 One category, two listing pages, three topics with five posts each: a
\* finished run without options on an empty store has issued exactly 1
\* categories fetch, 2 listing-page fetches, 3 topic fetches and no batch-posts
\* fetch, and the store holds the Forum with categories_crawled, the Category
\* with pages_crawled, 3 Topics all posts_crawled, and exactly 15 Posts.
C1_Scenario ==
    (pc = "idle" /\ hist.finished) =>
        /\ Fetches("categories") = 1
        /\ Fetches("page") = 2
        /\ Fetches("topic") = 3
        /\ Fetches("posts") = 0
        /\ Len(forum) = 1 /\ forum[1].categories_crawled
        /\ Len(category) = 1 /\ category[1].pages_crawled
        /\ Len(topic) = 3 /\ \A i \in DOMAIN topic : topic[i].posts_crawled
        /\ Len(post) = 15

\* an interrupted run and the run resuming it have ended on one store, an
\* uninterrupted run on another
ResumedAndReference ==
    /\ pc = "idle"
    /\ hist.finished
    /\ hist.runs = 3
    /\ killsLeft = 0
    /\ hist.ref # <<>>

\* C2 Resumability: a non-full run interrupted after N of the M categories
\* were marked pages_crawled, followed by a second run on the same store and
\* the same server content, ends in the same store (rows and flags) as one
\* uninterrupted run, and the second run requests no listing page of a
\* category that was already marked.
C2_Resumability ==
    /\ ResumedAndReference => StoreView = hist.ref[1]
    /\ (hist.resumed /\ pc # "idle") =>
         \A c \in hist.doneAtStart : PageRequests(log, category[c].category_id) = <<>>

ResetDone == pc = "crawlForum" /\ obs.op = "resetCrawledState"

\* the rows of tbl under forum f, by the category they hang on
UnderForum(tbl, f) == {i \in DOMAIN tbl : category[tbl[i].category_id].forum_id = f}

\* C10 Reset postcondition and frame: after resetCrawledState(forum) the Forum
\* has categories_crawled = false, each of its Categories pages_crawled =
\* false, each Topic under them posts_crawled = false and last_crawled_at
\* null; no row is added or removed, no Page or Post is changed, and the
\* Forums, Categories and Topics of other forums are unchanged.
C10_ResetPostAndFrame ==
    ResetDone =>
        LET f == obs.forum
            was == obs.was
        IN /\ ~forum[f].categories_crawled
           /\ \A c \in DOMAIN category : category[c].forum_id = f => ~category[c].pages_crawled
           /\ \A t \in UnderForum(topic, f) :
                ~topic[t].posts_crawled /\ topic[t].last_crawled_at = 0
           /\ DOMAIN forum = DOMAIN was.forum
           /\ DOMAIN category = DOMAIN was.category
           /\ DOMAIN topic = DOMAIN was.topic
           /\ forum[f].url = was.forum[f].url
           /\ \A c \in DOMAIN category :
                [category[c] EXCEPT !.pages_crawled = FALSE]
                  = [was.category[c] EXCEPT !.pages_crawled = FALSE]
           /\ \A t \in DOMAIN topic :
                [topic[t] EXCEPT !.posts_crawled = FALSE, !.last_crawled_at = 0]
                  = [was.topic[t] EXCEPT !.posts_crawled = FALSE, !.last_crawled_at = 0]
           /\ page = was.page
           /\ post = was.post
           /\ \A i \in DOMAIN forum : i # f => forum[i] = was.forum[i]
           /\ \A c \in DOMAIN category :
                category[c].forum_id # f => category[c] = was.category[c]
           /\ \A t \in DOMAIN topic :
                t \notin UnderForum(topic, f) => topic[t] = was.topic[t]

\* the reset cleared a crawled topic of its forum and another forum in the
\* same store still has a crawled category and a crawled topic
C10_Witness ==
    /\ ResetDone
    /\ \E t \in UnderForum(topic, obs.forum) :
         obs.was.topic[t].posts_crawled /\ obs.was.topic[t].last_crawled_at # 0
    /\ \E c \in DOMAIN category : category[c].forum_id # obs.forum /\ category[c].pages_crawled
    /\ \E t \in DOMAIN topic :
         t \notin UnderForum(topic, obs.forum) /\ topic[t].posts_crawled

\* the stated rule: the incoming version is strictly greater, or the incoming
\* edit timestamp is present and strictly later than the stored one
StatedEdited(stored, incoming) ==
    \/ VersionOr1(incoming.version) > VersionOr1(stored.version)
    \/ (EditedAt(incoming) # 0 /\ EditedAt(incoming) > stored.updated_at)

\* C4 Edit reconciliation (non-full crawl, post already stored): the incoming
\* snapshot overwrites the stored one iff its version is strictly greater or
\* its edit timestamp is present and strictly later than the stored edit
\* timestamp; otherwise the stored snapshot stays and no update is reported.
C4_EditReconciliation ==
    obs.op = "createPosts" =>
        IF StatedEdited(obs.stored, obs.incoming)
        THEN post[obs.id] = obs.incoming /\ obs.updatedCount = 1
        ELSE post[obs.id] = obs.stored /\ obs.updatedCount = 0

\* C5 Idempotent discovery: createCategory, createTopic and createPost insert
\* exactly one row when the natural key is not stored, and when it is stored
\* return the stored row, insert nothing and raise no error.
C5_IdempotentDiscovery ==
    obs.op \in {"createCategory", "createTopic", "createPost"} =>
        /\ ~obs.threw
        /\ IF obs.existed
           THEN obs.inserted = 0 /\ obs.returned = obs.stored
           ELSE obs.inserted = 1

-----------------------------------------------------------------------------
(* Failures and interruptions *)

\* every flag resetCrawledState clears is clear for forum f
FullyReset(f) ==
    /\ ~forum[f].categories_crawled
    /\ \A c \in DOMAIN category : category[c].forum_id = f => ~category[c].pages_crawled
    /\ \A t \in UnderForum(topic, f) :
         ~topic[t].posts_crawled /\ topic[t].last_crawled_at = 0

\* C11 Reset atomicity: when the crawl goes on after resetCrawledState, also
\* after one of its persistence steps failed, the store is either fully reset
\* or as it was before the reset began; the crawl never proceeds on a store in
\* which the Forum or some Categories are cleared and the Topics are not.
C11_ResetAtomicity ==
    ResetDone => FullyReset(obs.forum) \/ Stored = obs.was

\* the highest-numbered page stored for category c in pg has a null cursor
CursorExhausted(pg, c) ==
    \E i \in DOMAIN pg :
        /\ pg[i].category_id = c
        /\ pg[i].more_topics_url = 0
        /\ \A j \in DOMAIN pg : pg[j].category_id = c => pg[j].page_id <= pg[i].page_id

\* the steps of crawlTopic between the primary fetch and the marking
Collecting == {"createPosts", "batch", "stamp", "markTopic"}

\* the process was terminated in this step
Killed == pc # "idle" /\ pc' = "idle" /\ ~hist.killed /\ hist'.killed

\* C12 Kill safety of flags: a run killed between two steps leaves every row,
\* so every done-flag, as it was before the interrupted step; pages_crawled
\* is true only for a category that has a stored Page and whose
\* highest-numbered stored Page has a null cursor; posts_crawled becomes true
\* only in the step after the batch loop of that topic ended with an empty
\* remaining list, and is false while the topic's posts are being collected.
C12_KillSafety ==
    [][/\ Killed => Stored' = Stored
       /\ \A c \in DOMAIN category' :
            category'[c].pages_crawled => CursorExhausted(page', c)
       /\ \A c \in DOMAIN category' :
            category'[c].pages_crawled /\ (c \notin DOMAIN category \/ ~category[c].pages_crawled)
              => pc = "markCategory" /\ run.cat.id = c
       /\ \A t \in DOMAIN topic' :
            topic'[t].posts_crawled /\ (t \notin DOMAIN topic \/ ~topic[t].posts_crawled)
              => pc = "markTopic" /\ run.topic.id = t /\ run.remaining = <<>>
       /\ pc' \in Collecting => ~topic'[run'.topic.id].posts_crawled]_vars

\* a run was killed inside the batch loop of a topic: some but not all of the
\* topic's posts are stored and it is not marked, while its category is
C12_Witness ==
    /\ hist.killed
    /\ pc = "idle"
    /\ \E t \in DOMAIN topic :
         /\ ~topic[t].posts_crawled
         /\ category[topic[t].category_id].pages_crawled
         /\ LET n == Cardinality({i \in DOMAIN post : post[i].topic_id = t})
            IN 0 < n /\ n < Len(Manifest)

\* C13 Per-category failure isolation: when a step fails while a category is
\* walked, crawl() does not throw, that Category keeps pages_crawled = false,
\* and when the run has ended every other category of the forum has been
\* walked to the end and the topics of the forum have been collected.
C13_CategoryIsolation ==
    hist.fault.at = "category" =>
        /\ ~hist.threw
        /\ ~category[hist.fault.id].pages_crawled
        /\ pc = "idle" =>
             /\ hist.finished
             /\ \A c \in DOMAIN category :
                  c # hist.fault.id /\ category[c].forum_id = category[hist.fault.id].forum_id
                    => category[c].pages_crawled
             /\ \A t \in UnderForum(topic, category[hist.fault.id].forum_id) :
                  topic[t].posts_crawled

\* C14 Per-topic failure isolation: when a step fails while the posts of a
\* topic are collected, crawl() does not throw, the Topic's posts_crawled and
\* last_crawled_at are what they were before the attempt, and when the run
\* has ended every other topic of the forum has been collected.
C14_TopicIsolation ==
    hist.fault.at = "topic" =>
        LET t == hist.fault.id
            was == hist.fault.was
        IN /\ ~hist.threw
           /\ topic[t].posts_crawled = was.posts_crawled
           /\ topic[t].last_crawled_at = was.last_crawled_at
           /\ pc = "idle" =>
                /\ hist.finished
                /\ \A u \in UnderForum(topic, category[topic[t].category_id].forum_id) :
                     u # t => topic[u].posts_crawled

\* the forum of the failed discovery had categories_crawled = true in the
\* store when the run started
DiscoveredAtStart ==
    /\ hist.fault.id \in DOMAIN hist.storeAtStart.forum
    /\ hist.storeAtStart.forum[hist.fault.id].categories_crawled

\* C15 Initial category discovery is fatal: when the categories fetch fails
\* in a run on a Forum whose categories_crawled is false, crawl() ends with an
\* error its caller observes, no Category row is created, no category is
\* walked, no topic is collected and the Forum keeps categories_crawled =
\* false.
C15_DiscoveryFatal ==
    (hist.fault.at = "discovery" /\ ~DiscoveredAtStart) =>
        /\ pc = "idle"
        /\ hist.threw
        /\ ~forum[hist.fault.id].categories_crawled
        /\ category = hist.storeAtStart.category
        /\ page = hist.storeAtStart.page
        /\ topic = hist.storeAtStart.topic
        /\ post = hist.storeAtStart.post
        /\ log = <<>>

\* C16 Discovery failure on a discovered forum: when the categories fetch
\* fails in a run on a Forum that had categories_crawled = true when the run
\* started, the run goes on to walk the stored categories, and when it has
\* ended the Forum still has categories_crawled = true.
C16_DiscoveryKeepsFlag ==
    (hist.fault.at = "discovery" /\ DiscoveredAtStart) =>
        /\ ~hist.threw
        /\ pc = "idle" =>
             /\ hist.finished
             /\ \A c \in DOMAIN category :
                  category[c].forum_id = hist.fault.id => category[c].pages_crawled
             /\ forum[hist.fault.id].categories_crawled

\* C17 Forum resolution is fatal: when finding or creating the Forum row
\* fails, crawl() ends with an error thrown to its caller; no reset is
\* performed, no fetch is issued and no row is written.
C17_ForumResolutionFatal ==
    hist.fault.at = "getForum" =>
        /\ pc = "idle"
        /\ hist.threw
        /\ ~hist.finished
        /\ obs.op = "none"
        /\ log = <<>>
        /\ Stored = hist.storeAtStart

\* getForum failed in a full-crawl run on a store that holds crawled rows
C17_Witness ==
    /\ hist.fault.at = "getForum"
    /\ opts.fullCrawl
    /\ \E f \in DOMAIN forum : forum[f].categories_crawled
    /\ \E t \in DOMAIN topic : topic[t].posts_crawled

-----------------------------------------------------------------------------
(* limitedFetch *)

\* the rejections of the rate limiter in the current limitedFetch call
Denials == Len(obs.reported)

\* C18 Bounded retry on throttling: one limitedFetch call makes at most
\* 1 + 3 attempts on the rate limiter; each rejection is followed by a wait
\* of the reported cooldown (60 s when none is reported) and, while retries
\* remain, by another attempt; when every attempt was rejected no GET is
\* issued and the call fails; when an attempt is admitted exactly one GET is
\* issued, for the url of the call.
C18_BoundedRetry ==
    obs.op = "limitedFetch" =>
        /\ obs.attempts <= 1 + Retries
        /\ Len(obs.waits) = IF pc = "wait" THEN Denials - 1 ELSE Denials
        /\ \A i \in DOMAIN obs.waits :
             obs.waits[i] = IF obs.reported[i] = 0 THEN DefaultWait ELSE obs.reported[i]
        /\ pc = "consume" => obs.attempts = Denials /\ obs.attempts <= Retries
        /\ obs.outcome = "exhausted" <=>
             pc = "idle" /\ obs.attempts = 1 + Retries /\ Denials = 1 + Retries
        /\ obs.outcome = "exhausted" => obs.got = <<>>
        /\ pc = "get" => obs.attempts = Denials + 1 /\ obs.got = <<>>
        /\ obs.outcome \in {"data", "failed"} =>
             obs.attempts = Denials + 1 /\ obs.got = <<obs.url>>

\* a call was admitted at its last attempt and got its data, every earlier
\* attempt having been rejected, once without a reported cooldown
C18_Witness ==
    /\ obs.op = "limitedFetch"
    /\ obs.outcome = "data"
    /\ obs.attempts = 1 + Retries
    /\ \E i \in DOMAIN obs.waits : obs.waits[i] = DefaultWait
    /\ \E i \in DOMAIN obs.waits : obs.waits[i] # DefaultWait

-----------------------------------------------------------------------------
(* Forum resolution *)

\* the rows of forum table tbl that carry url
RowsOf(tbl, url) == {i \in DOMAIN tbl : tbl[i].url = url}

\* C20 One Forum row per URL: getForum returns the stored Forum of the
\* crawler's base url and creates nothing when there is one, and otherwise
\* creates exactly one Forum with categories_crawled = false; after any
\* sequence of runs the store holds at most one Forum row for a url, and
\* exactly one for the url of a run that resolved its forum.
C20_OneForumPerUrl ==
    [][/\ (pc = "getForum" /\ pc' # "idle") =>
            /\ RowsOf(forum, opts.url) # {} =>
                 forum' = forum /\ run'.forum.id \in RowsOf(forum, opts.url)
            /\ RowsOf(forum, opts.url) = {} =>
                 /\ forum' = Append(forum, [url |-> opts.url, categories_crawled |-> FALSE])
                 /\ run'.forum.id = Len(forum')
            /\ Cardinality(RowsOf(forum', opts.url)) = 1
       /\ pc # "getForum" => DOMAIN forum' = DOMAIN forum
       /\ \A u \in Urls : Cardinality(RowsOf(forum', u)) <= 1]_vars

\* three runs have ended, the third a full crawl of a forum stored before,
\* and the store holds the two forums
C20_Witness ==
    /\ hist.runs = 3
    /\ hist.finished
    /\ opts.fullCrawl
    /\ Len(forum) = 2
    /\ \A u \in Urls : Cardinality(RowsOf(forum, u)) = 1

-----------------------------------------------------------------------------
(* The store over the runs *)

\* the natural keys of the rows of each table of a store
NaturalKeys(st) ==
    [forum |-> {st.forum[i].url : i \in DOMAIN st.forum},
     category |-> {<<st.category[i].forum_id, st.category[i].category_id>> : i \in DOMAIN st.category},
     page |-> {<<st.page[i].category_id, st.page[i].page_id>> : i \in DOMAIN st.page},
     topic |-> {<<st.topic[i].category_id, st.topic[i].topic_id>> : i \in DOMAIN st.topic},
     post |-> {<<st.post[i].topic_id, st.post[i].post_id>> : i \in DOMAIN st.post}]

\* the tables a store holds
Tables == {"forum", "category", "page", "topic", "post"}

\* C21 Append/update-only store: no step of a run, the full-crawl reset
\* included, removes a row: in every step each table keeps its rows under
\* their ids and the natural keys of Forum, Category, Page, Topic and Post
\* rows it held before.
C21_AppendOnly ==
    [][\A tb \in Tables :
          /\ NaturalKeys(Stored)[tb] \subseteq NaturalKeys(Stored')[tb]
          /\ DOMAIN Stored[tb] \subseteq DOMAIN Stored'[tb]]_vars

\* a full-crawl run has reset and ended on a store that held crawled topics,
\* pages and posts
C21_Witness ==
    /\ hist.runs = 2
    /\ hist.resets = 1
    /\ hist.finished
    /\ \E t \in DOMAIN hist.storeAtStart.topic : hist.storeAtStart.topic[t].posts_crawled
    /\ hist.storeAtStart.page # <<>>
    /\ hist.storeAtStart.post # <<>>
    /\ NaturalKeys(Stored) = NaturalKeys(hist.storeAtStart)

-----------------------------------------------------------------------------
(* The batch loop *)

-----------------------------------------------------------------------------
(* A full crawl *)

\* a full-crawl run in which no step failed has ended on a forum that had
\* categories_crawled = true when the run started
FullCrawlEnded ==
    /\ pc = "idle"
    /\ hist.finished
    /\ opts.fullCrawl
    /\ hist.fault = NoFault
    /\ \E f \in DOMAIN hist.storeAtStart.forum :
         hist.storeAtStart.forum[f].url = opts.url /\ hist.storeAtStart.forum[f].categories_crawled

\* C23 Full crawl end state: a full-crawl run in which every step succeeds
\* ends with the Forum categories_crawled = true, every Category of the forum
\* pages_crawled = true and every Topic under it posts_crawled = true with
\* last_crawled_at set, and the categories listing was fetched exactly once
\* in the run.
C23_FullCrawlEndState ==
    FullCrawlEnded =>
        /\ forum[ThisForum].categories_crawled
        /\ \A c \in DOMAIN category :
             category[c].forum_id = ThisForum => category[c].pages_crawled
        /\ \A t \in UnderForum(topic, ThisForum) :
             topic[t].posts_crawled /\ topic[t].last_crawled_at # 0
        /\ Fetches("categories") = 1

-----------------------------------------------------------------------------
(* The categories a run walks *)

\* the rows of table tbl that hang on category row c
KeysUnder(tbl, c) == {<<tbl[i].category_id, tbl[i]>> : i \in {j \in DOMAIN tbl : tbl[j].category_id = c}}

\* C24 Walker selection: crawlCategory is called for every Category stored
\* under the Forum, whether this run listed it or an earlier run created it,
\* so a run in which no step fails ends with each of them pages_crawled; for
\* a Category that was pages_crawled = true when a run without fullCrawl
\* started the run requests no listing page, leaves the Category row and its
\* Page rows as they were and creates no Topic row under it.
C24_WalkerSelection ==
    [][/\ (pc \in {"markForum", "crawlForum"} /\ pc' = "crawlCategory") =>
            {run'.cats[k].id : k \in DOMAIN run'.cats}
              = {c \in DOMAIN category' : category'[c].forum_id = run.forum.id}
       /\ (pc = "crawlCategory" /\ pc' \in {"page", "markCategory", "crawlCategory"}) =>
            run.cats # <<>> /\ run'.cats = Tail(run.cats)
       /\ (pc = "crawlCategory" /\ pc' = "crawlTopics") => run.cats = <<>>
       /\ (pc' = "idle" /\ hist'.finished /\ hist'.fault = NoFault) =>
            \A c \in DOMAIN category' :
               category'[c].forum_id = FindForum(opts.url) => category'[c].pages_crawled
       /\ ~opts'.fullCrawl =>
            \A c \in hist'.doneAtStart :
               /\ PageRequests(log', category'[c].category_id) = <<>>
               /\ category'[c] = hist'.storeAtStart.category[c]
               /\ KeysUnder(page', c) = KeysUnder(hist'.storeAtStart.page, c)
               /\ {topic'[i].topic_id : i \in {j \in DOMAIN topic' : topic'[j].category_id = c}}
                    = {hist'.storeAtStart.topic[i].topic_id :
                         i \in {j \in DOMAIN hist'.storeAtStart.topic :
                                  hist'.storeAtStart.topic[j].category_id = c}}]_vars

\* a run without fullCrawl that listed no categories has walked a category an
\* earlier run created and left undone, beside one that was done and skipped
C24_Witness ==
    /\ hist.runs = 2
    /\ hist.finished
    /\ ~opts.fullCrawl
    /\ Fetches("categories") = 0
    /\ hist.doneAtStart # {}
    /\ \E c \in DOMAIN category :
         /\ c \notin hist.doneAtStart
         /\ c \in DOMAIN hist.storeAtStart.category
         /\ category[c].pages_crawled
         /\ PageRequests(log, category[c].category_id) # <<>>

-----------------------------------------------------------------------------
(* The pages of a category *)

\* the rows of page table pg stored for category row c
PageRows(pg, c) == {i \in DOMAIN pg : pg[i].category_id = c}

\* the cursor of the highest-numbered page pg holds for category row c; 0
\* stands for the request of page 0 when none is stored
StoredCursor(pg, c) ==
    IF PageRows(pg, c) = {} THEN 0
    ELSE LET top == CHOOSE i \in PageRows(pg, c) :
                       \A j \in PageRows(pg, c) : pg[j].page_id <= pg[i].page_id
         IN pg[top].more_topics_url

\* C25 Page numbering and cursor dependency: the Page rows of a category are
\* numbered 0..k without gap or duplicate; a run makes one listing request
\* for each page it stores; the request after page N is made when page N is
\* stored, names the page its stored cursor names, and its answer is stored
\* as page N + 1.
C25_PageNumbering ==
    [][/\ \A c \in DOMAIN category' :
            {page'[i].page_id : i \in PageRows(page', c)}
              = 0..(Cardinality(PageRows(page', c)) - 1)
       /\ pc' # "idle" =>
            \A c \in DOMAIN category' :
               Len(PageRequests(log', category'[c].category_id))
                 = Cardinality(PageRows(page', c))
                     - Cardinality(PageRows(hist'.storeAtStart.page, c))
       /\ (pc = "page" /\ pc' # "idle") =>
            LET c == run.cat.id
                rq == log'[Len(log')]
            IN /\ Len(log') = Len(log) + 1
               /\ rq.kind = "page"
               /\ rq.cat = run.cat.category_id
               /\ rq.page = StoredCursor(page, c)
               /\ PageRows(page, c) # {} => StoredCursor(page, c) # 0
               /\ page' = Append(page, page'[Len(page')])
               /\ page'[Len(page')].category_id = c
               /\ page'[Len(page')].page_id = Cardinality(PageRows(page, c))]_vars

\* a run resumed a category walk that was interrupted after its second page
\* and stored the third page of the category
C25_Witness ==
    /\ hist.resumed
    /\ pc # "idle"
    /\ \E c \in DOMAIN category :
         /\ Cardinality(PageRows(hist.storeAtStart.page, c)) = 2
         /\ Cardinality(PageRows(page, c)) = 3

-----------------------------------------------------------------------------
(* The phases of a run *)

\* the phase a request belongs to: discovery, the walk, the collection
Phase(rq) ==
    IF rq.kind = "categories" THEN 0
    ELSE IF rq.kind = "page" THEN 1
    ELSE 2

\* C26 Phase ordering within a run: the categories listing, when fetched, is
\* the first request of the run; every listing-page request, of whatever
\* category, precedes the first topic or batch-posts request; while topics
\* are collected every category of the forum has been walked.
C26_PhaseOrdering ==
    /\ \A i, j \in DOMAIN log : i < j => Phase(log[i]) <= Phase(log[j])
    /\ \A i \in DOMAIN log : log[i].kind = "categories" => i = 1
    /\ (pc = "crawlTopics" \/ pc \in Collecting \/ \E i \in DOMAIN log : Phase(log[i]) = 2) =>
         \A c \in DOMAIN category :
            category[c].forum_id = ThisForum => category[c].pages_crawled

\* a run has listed the categories, requested listing pages of two
\* categories and then fetched a topic and a batch of posts
C26_Witness ==
    /\ Fetches("categories") = 1
    /\ \E i, j \in DOMAIN log :
         log[i].kind = "page" /\ log[j].kind = "page" /\ log[i].cat # log[j].cat
    /\ Fetches("topic") > 1
    /\ Fetches("posts") > 0

-----------------------------------------------------------------------------
(* The cutoff of a category walk *)

\* the after parameter the cursor of the highest-numbered page stored for
\* category row c carries, 0 when it carries none or no page is stored
StoredCursorAfter(pg, c) ==
    IF PageRows(pg, c) = {} THEN 0
    ELSE LET top == CHOOSE i \in PageRows(pg, c) :
                       \A j \in PageRows(pg, c) : pg[j].page_id <= pg[i].page_id
         IN pg[top].more_after

\* the greatest creation timestamp stored with a topic of the forum, 0 when
\* no topic of the forum has one
LatestStored(forumId) ==
    LET S == {topic[i].created_at :
                i \in {j \in DOMAIN topic : category[topic[j].category_id].forum_id = forumId}}
    IN IF \A x \in S : x = 0 THEN 0 ELSE CHOOSE m \in S : \A x \in S : x <= m

-----------------------------------------------------------------------------
(* The identifiers of the batch requests *)

\* s is what is left of t when some of its first entries are taken off
IsSuffix(s, t) ==
    /\ Len(s) <= Len(t)
    /\ s = SubSeq(t, Len(t) - Len(s) + 1, Len(t))

\* C28 Batch requests follow the manifest: a batch-posts request asks for
\* at most 20 identifiers, the first min(20, length) of the remaining list,
\* which is the manifest without some of its first entries; so every
\* identifier that precedes a requested one in the manifest is requested
\* with it or has been counted as present.
C28_BatchFollowsManifest ==
    [][(pc = "batch" /\ Len(log') = Len(log) + 1) =>
         LET asked == hist'.asked
             counted == Len(Manifest) - Len(run.remaining)
         IN /\ log'[Len(log')].kind = "posts"
            /\ Len(asked) <= 20
            /\ Len(asked) = IF Len(run.remaining) < 20 THEN Len(run.remaining) ELSE 20
            /\ \A i \in DOMAIN asked : asked[i] = run.remaining[i]
            /\ IsSuffix(run.remaining, Manifest)
            /\ \A i \in DOMAIN asked : asked[i] = Manifest[counted + i]]_vars

\* more than 20 identifiers remained after an earlier batch request, and
\* the request just made asked for the first 20 of them
C28_Witness ==
    /\ pc \in {"batch", "stamp"}
    /\ BatchFetches >= 2
    /\ Len(hist.before) > 20
    /\ Len(hist.asked) = 20
    /\ hist.asked = SubSeq(hist.before, 1, 20)

-----------------------------------------------------------------------------
(* The completion of a topic *)

\* C29 Topic completion: a topic whose collection runs to its end without
\* error has last_crawled_at stamped with the time of the stamp and
\* posts_crawled true; the stamp is written while the flag is still as it
\* was, the flag in a later step; the JSON of the topic is stored by the
\* step that fetches it, which touches no post, and posts are reconciled
\* only after it.
C29_TopicCompletion ==
    [][/\ (pc = "crawlTopics" /\ pc' = "createPosts") =>
            /\ topic'[run'.topic.id].created_at = srv.created[run'.topic.topic_id]
            /\ post' = post
       /\ post' # post =>
            /\ pc \in {"createPosts", "batch"}
            /\ topic[run.topic.id].created_at = srv.created[run.topic.topic_id]
            /\ ~topic[run.topic.id].posts_crawled
       /\ (pc = "stamp" /\ pc' = "markTopic") =>
            /\ topic'[run.topic.id].last_crawled_at = now
            /\ topic'[run.topic.id].posts_crawled = topic[run.topic.id].posts_crawled
            /\ ~topic[run.topic.id].posts_crawled
       /\ (pc = "markTopic" /\ pc' = "crawlTopics") =>
            /\ topic'[run.topic.id].posts_crawled
            /\ topic'[run.topic.id].last_crawled_at = now
            /\ topic[run.topic.id].last_crawled_at = now]_vars

\* a topic that took a batch request has been collected to its end: its
\* JSON and posts are stored, it is stamped with the current time and flagged
C29_Witness ==
    /\ pc = "crawlTopics"
    /\ BatchFetches >= 1
    /\ run.topic.id \in DOMAIN topic
    /\ topic[run.topic.id].posts_crawled
    /\ topic[run.topic.id].last_crawled_at = now
    /\ topic[run.topic.id].created_at # 0
    /\ \E i \in DOMAIN post : post[i].topic_id = run.topic.id

-----------------------------------------------------------------------------
(* createPosts of a full crawl *)

\* C30 Full-crawl leaves stored posts untouched: createPosts of a full
\* crawl changes no stored Post row, whatever version or edit timestamp the
\* incoming snapshot of it carries, and every post of the response that
\* was not stored is stored afterwards.
C30_FullCrawlKeepsPosts ==
    [][/\ \A i \in DOMAIN post : i \in DOMAIN post' /\ post'[i] = post[i]
       /\ \A n \in obs'.asked :
            \E i \in DOMAIN post' : post'[i].post_id = n /\ post'[i].topic_id = 1
       /\ Len(post') - Len(post)
            = Cardinality({n \in obs'.asked :
                            ~\E i \in DOMAIN post : post[i].post_id = n /\ post[i].topic_id = 1})
       /\ obs'.updatedCount = Len(post') - Len(post)]_vars

\* a full crawl reconciled a stored post against a snapshot of a higher
\* version and a later edit, and created the second post along with it
C30_Witness ==
    /\ obs.op = "createPostsFullCrawl"
    /\ obs.newer
    /\ obs.asked = {1, 2}
    /\ obs.updatedCount = 1
    /\ Len(post) = 2

-----------------------------------------------------------------------------
(* Overlapping runs *)

\* C31 Check-then-insert race: the create step of forum resolution inserts
\* a Forum row for the url of its run whatever the table holds by then, and
\* raises nothing; every row of that url it finds there was stored after its
\* own find step, by a run that overlaps it.
C31_CheckThenInsertRace ==
    [][\A p \in Crawls :
         (pc[p] = "createForum" /\ pc'[p] # "createForum") =>
            /\ forum' = Append(forum, [url |-> opts[p].url, categories_crawled |-> FALSE])
            /\ run'[p].forum = Len(forum')
            /\ \A i \in RowsOf(forum, opts[p].url) : i > run[p].seen]_vars

\* two runs for the same url overlapped and the store holds two Forum rows
\* of that url
C31_Witness ==
    \E u \in Urls :
       /\ Cardinality(RowsOf(forum, u)) = 2
       /\ \A p \in Crawls : pc[p] = "return" /\ opts[p].url = u

-----------------------------------------------------------------------------
(* Listed topics of a walked category *)

\* C32 Listed topics are stored: while a Category is pages_crawled, every
\* topic in the topic list of each Page stored for it has a Topic row under
\* that Category, whatever runs, interruptions and failures came before.
C32_ListedTopicsStored ==
    \A c \in DOMAIN category :
       category[c].pages_crawled =>
          \A i \in PageRows(page, c) :
             \A k \in DOMAIN page[i].topics :
                \E t \in DOMAIN topic : /\ topic[t].category_id = c
                                         /\ topic[t].topic_id = page[i].topics[k]

-----------------------------------------------------------------------------
(* A category left pending by a failed walk *)

\* at the start of the run category row c was not walked and had no Page,
\* while a topic of another category of the forum had been collected
PendingAtStart(c) ==
    /\ c \in DOMAIN hist.storeAtStart.category
    /\ ~hist.storeAtStart.category[c].pages_crawled
    /\ PageRows(hist.storeAtStart.page, c) = {}
    /\ \E i \in DOMAIN hist.storeAtStart.topic :
         /\ hist.storeAtStart.topic[i].created_at # 0
         /\ hist.storeAtStart.topic[i].category_id # c

\* C33 A pending category is completed: when a run without full-crawl and
\* without since-date has ended without error, every category that was
\* pending at its start, its walk having failed before a Page was stored
\* while topics of other categories were collected, has a Topic row for every
\* topic the server lists in it.
C33_PendingCategoryCompleted ==
    (hist.finished /\ ~hist.threw /\ hist.fault = NoFault
       /\ ~opts.fullCrawl /\ opts.sinceDate = 0) =>
        \A c \in DOMAIN category :
           PendingAtStart(c) =>
              \A k \in DOMAIN ServerListing(category[c].category_id, 0) :
                 \E t \in DOMAIN topic :
                    /\ topic[t].category_id = c
                    /\ topic[t].topic_id = ServerListing(category[c].category_id, 0)[k]

-----------------------------------------------------------------------------
(* Listed categories of a discovered forum *)

\* C34 Listed categories are stored: while a Forum is categories_crawled,
\* every category of the categories listing has a Category row under that
\* forum, also when createCategory failed for some of them.
C34_ListedCategoriesStored ==
    \A f \in DOMAIN forum :
       forum[f].categories_crawled =>
          \A k \in DOMAIN srv.cats :
             \E c \in DOMAIN category : /\ category[c].forum_id = f
                                         /\ category[c].category_id = srv.cats[k]

-----------------------------------------------------------------------------
(* The posts of a collected topic *)

\* C35 A collected topic has its posts: while a Topic is posts_crawled, a
\* Post row exists under it for every identifier of the topic's manifest,
\* the batch requests having been answered with the posts of a prefix of
\* the identifiers asked for, in order.
C35_CollectedTopicHasPosts ==
    \A t \in DOMAIN topic :
       topic[t].posts_crawled =>
          \A k \in DOMAIN Manifest :
             \E i \in DOMAIN post : post[i].topic_id = t /\ post[i].post_id = Manifest[k]

\* a topic whose manifest is longer than one batch is marked collected
\* after three or more batch requests, some of them answered in part, and
\* the store holds a post for each identifier
C35_Witness ==
    /\ \E t \in DOMAIN topic : topic[t].posts_crawled
    /\ BatchFetches >= 3
    /\ Len(post) = Len(Manifest)
    /\ Len(Manifest) > 20

-----------------------------------------------------------------------------
(* The stamp of a collected topic *)

\* C36 A collected topic is stamped: in every reachable state a Topic that
\* is posts_crawled has a last_crawled_at, whatever runs, resets and
\* interruptions came before.
C36_CollectedTopicStamped ==
    \A t \in DOMAIN topic : topic[t].posts_crawled => topic[t].last_crawled_at # 0

\* a run was terminated between the stamp and the flag of one topic, after
\* it had collected another
C36_Witness ==
    /\ hist.killed
    /\ \E t \in DOMAIN topic : topic[t].posts_crawled
    /\ \E t \in DOMAIN topic : ~topic[t].posts_crawled /\ topic[t].last_crawled_at # 0

-----------------------------------------------------------------------------
(* The last page of a category *)

\* the Page rows of category row c in pg that have no more-topics cursor
Final(pg, c) == {i \in PageRows(pg, c) : pg[i].more_topics_url = 0}

\* C37 One final page: at most one Page of a category has no more-topics
\* cursor, and it is the highest-numbered Page of the category; no Page is
\* stored for a category that holds a Page without cursor, in a full crawl
\* as in any other run.
C37_OneFinalPage ==
    [][\A c \in DOMAIN category' :
         /\ Cardinality(Final(page', c)) <= 1
         /\ \A i \in Final(page', c) :
              \A j \in PageRows(page', c) : page'[j].page_id <= page'[i].page_id
         /\ PageRows(page', c) # PageRows(page, c) => Final(page, c) = {}]_vars

\* a full crawl has gone through the categories again, one of which holds
\* two Pages, the second without cursor
C37_Witness ==
    /\ opts.fullCrawl
    /\ hist.resets >= 1
    /\ pc = "crawlTopics"
    /\ \E c \in DOMAIN category :
         /\ category[c].pages_crawled
         /\ Cardinality(PageRows(page, c)) = 2
         /\ Final(page, c) # {}

-----------------------------------------------------------------------------
(* The flags outside the reset *)

\* the positions of resetCrawledState
Resetting == pc \in {"resetForum", "resetCategory", "resetTopics"}

\* C38 Flags are monotone outside the reset: a step that is not one of
\* resetCrawledState changes no categories_crawled, pages_crawled or
\* posts_crawled from true to false and sets no last_crawled_at to null or
\* to an earlier time; a run without full-crawl takes no step of
\* resetCrawledState.
C38_FlagsMonotone ==
    [][/\ ~Resetting =>
            /\ \A f \in DOMAIN forum :
                 forum[f].categories_crawled =>
                    f \in DOMAIN forum' /\ forum'[f].categories_crawled
            /\ \A c \in DOMAIN category :
                 category[c].pages_crawled =>
                    c \in DOMAIN category' /\ category'[c].pages_crawled
            /\ \A t \in DOMAIN topic :
                 /\ t \in DOMAIN topic'
                 /\ topic[t].posts_crawled => topic'[t].posts_crawled
                 /\ topic'[t].last_crawled_at >= topic[t].last_crawled_at
       /\ (Resetting \/ hist'.resets # hist.resets) => opts.fullCrawl]_vars

\* a run without full-crawl that resumed an interrupted one stamps a topic
\* that carried the stamp of the interrupted run
C38_Witness ==
    /\ ~opts.fullCrawl
    /\ hist.resumed
    /\ pc = "markTopic"
    /\ run.topic.id \in DOMAIN hist.topicAtStart
    /\ hist.topicAtStart[run.topic.id].last_crawled_at # 0
    /\ topic[run.topic.id].last_crawled_at > hist.topicAtStart[run.topic.id].last_crawled_at

-----------------------------------------------------------------------------
(* Reconciling an unedited post *)

\* C39 Reconciliation is idempotent for unedited posts: createPosts of a
\* non-full crawl called with a snapshot identical to the stored one, same
\* version and same timestamps, reports no update and leaves the Post row
\* as it was.
C39_UneditedPostUntouched ==
    (obs.op = "createPosts" /\ obs.incoming = obs.stored) =>
        /\ post[obs.id] = obs.stored
        /\ obs.updatedCount = 0

-----------------------------------------------------------------------------
(* The capacity of the rate limiter *)

\* C40 Rate-limit capacity: a crawler created with a per-request delay of
\* rateLimit > 0 milliseconds has a bucket of round(1000 / rateLimit)
\* points a second, which is at least 1, and paces its requests by that
\* delay; without the option, or with 0, the capacity is 3 and the pacing
\* delay 500 ms.
C40_RateLimitCapacity ==
    obs.op = "create" =>
        IF obs.rateLimit > 0
        THEN /\ obs.points >= 1
             /\ (2 * obs.points - 1) * obs.rateLimit <= 2000
             /\ 2000 < (2 * obs.points + 1) * obs.rateLimit
             /\ obs.delay = obs.rateLimit
        ELSE obs.points = 3 /\ obs.delay = 500

====
